---- MODULE Spec2Model ----
(***************************************************************************)
(* Model of the idea-to-solution platform (Next.js front end over          *)
(* Microsoft Dataverse): the status mapper, the record mapper, the         *)
(* field-visibility table and the server actions that write to Dataverse.  *)
(***************************************************************************)
EXTENDS Integers, Sequences, FiniteSets, TLC

VARIABLES
    record,          \* raw Dataverse record handed to mapDataverseToIdea
    idea,            \* the Idea mapDataverseToIdea returned for it (or NoIdea)
    selectedStatus,  \* AdminFieldsPage: the status tab selected
    config,          \* AdminFieldsPage: FIELD_CONFIG[selectedStatus]
    detailStatus,    \* IdeaDetailPage: status of the idea shown ("" before a page is opened)
    sections,        \* IdeaDetailPage: the stage sections rendered
    isEditable,      \* IdeaDetailPage: the isEditable prop handed to EditButton
    env,             \* process.env of the server: which settings are present
    table,           \* the ideas table held by Dataverse, newest record first
    call,            \* the last call of a data function or server action, and its outcome
    forms,           \* per user: the edit form the browser shows, if any
    now,             \* the time, in seconds
    browser,         \* one browser: its cookie, its localStorage and the AuthProvider state
    reply            \* the last response of /api/auth/token

mapVars == <<record, idea>>
viewVars == <<selectedStatus, config, detailStatus, sections, isEditable>>
dataVars == <<env, table, call, forms>>
authVars == <<now, browser, reply>>
vars == <<mapVars, viewVars, dataVars, authVars>>

(***************************************************************************)
(* JavaScript values as they arrive in a Dataverse JSON record.            *)
(***************************************************************************)
Undefined == [t |-> "undefined", n |-> 0, s |-> ""]
Null == [t |-> "null", n |-> 0, s |-> ""]
Num(x) == [t |-> "number", n |-> x, s |-> ""]
Str(x) == [t |-> "string", n |-> 0, s |-> x]
Bool(b) == [t |-> "boolean", n |-> IF b THEN 1 ELSE 0, s |-> ""]
Obj == [t |-> "object", n |-> 0, s |-> ""]

\* JavaScript truthiness, as used by the || chains of the mapper
Truthy(v) ==
    \/ v.t = "number" /\ v.n # 0
    \/ v.t = "string" /\ v.s # ""
    \/ v.t = "boolean" /\ v.n = 1
    \/ v.t = "object"

\* mutant: the operands of || taken in the wrong order
JsOr_Swapped(a, b) == IF Truthy(b) THEN b ELSE a

\* mutant: the fallback operand of || dropped
JsOr_NoFallback(a, b) == a

\* a || b
JsOr(a, b) == IF Truthy(a) THEN a ELSE b

(***************************************************************************)
(* The users, and the edit form in each user's browser                     *)
(***************************************************************************)
\* the people who use the application, by display name
Actors == {"Max Muster", "Anna Beispiel"}

\* the dataverse_token cookie of a user's browser
CookieOf(actor) == IF actor = "Max Muster" THEN "token-max" ELSE "token-anna"

\* EditIdeaForm: its props and its two pieces of state
NoForm ==
    [ open |-> FALSE, ideaId |-> "", currentStatus |-> Undefined,
      submitError |-> "", submitSuccess |-> FALSE ]

(***************************************************************************)
(* lib/validators.ts                                                       *)
(***************************************************************************)
ideaStatusValues ==
    << "eingereicht",
       "in Qualitätsprüfung",
       "in Überarbeitung",
       "in Detailanalyse",
       "ITOT-Board vorgestellt",
       "Projektportfolio aufgenommen",
       "Quartalsplanung aufgenommen",
       "Wochenplanung aufgenommen",
       "in Umsetzung",
       "abgeschlossen",
       "abgelehnt" >>

IdeaStatus == {ideaStatusValues[i] : i \in DOMAIN ideaStatusValues}

(***************************************************************************)
(* lib/dataverse.ts : configuration tables                                 *)
(***************************************************************************)
FormattedValue == "@OData.Community.Display.V1.FormattedValue"

FIELD_MAP ==
    [ id |-> "cr6df_sgsw_digitalisierungsvorhabenid",
      title |-> "cr6df_name",
      description |-> "cr6df_beschreibung",
      submittedBy |-> "_createdby_value",
      submittedByName |-> "_createdby_value@OData.Community.Display.V1.FormattedValue",
      ideengeberId |-> "_cr6df_ideengeber_value",
      ideengeberName |-> "_cr6df_ideengeber_value@OData.Community.Display.V1.FormattedValue",
      type |-> "cr6df_typ",
      status |-> "cr6df_lifecyclestatus",
      responsiblePerson |-> "_cr6df_verantwortlicher_value",
      responsiblePersonName |-> "_cr6df_verantwortlicher_value@OData.Community.Display.V1.FormattedValue",
      subscriber |-> "_cr6df_abonnenten_value",
      subscriberName |-> "_cr6df_abonnenten_value@OData.Community.Display.V1.FormattedValue",
      createdOn |-> "createdon",
      modifiedOn |-> "modifiedon",
      initialReviewReason |-> "cr6df_initalbewertung_begruendung",
      complexity |-> "cr6df_komplexitaet",
      criticality |-> "cr6df_kritikalitaet",
      initialReviewDate |-> "cr6df_initialgeprueft_am",
      detailAnalysisResult |-> "cr6df_detailanalyse_ergebnis",
      detailAnalysisBenefit |-> "cr6df_detailanalyse_nutzen",
      detailAnalysisEffort |-> "cr6df_detailanalyse_personentage",
      priority |-> "cr6df_prioritat",
      itotBoardReason |-> "cr6df_itotboard_begruendung",
      itotBoardMeeting |-> "_cr6df_itotboardsitzung_value",
      itotBoardMeetingName |-> "_cr6df_itotboardsitzung_value@OData.Community.Display.V1.FormattedValue",
      plannedStart |-> "cr6df_planung_geplanterstart",
      plannedEnd |-> "cr6df_planung_geplantesende",
      completedOn |-> "cr6df_abgeschlossen_am",
      rejectedOn |-> "cr6df_abgelehnt_am" ]

\* every property name a Dataverse record of the ideas table can carry
WireFields ==
    {FIELD_MAP[k] : k \in DOMAIN FIELD_MAP}
        \cup {FIELD_MAP.complexity \o FormattedValue,
              FIELD_MAP.criticality \o FormattedValue,
              FIELD_MAP.priority \o FormattedValue}

TYPE_MAP ==
    (562520000 :> "Idee") @@ (562520001 :> "Vorhaben") @@ (562520002 :> "Projekt")

mapTypeValue(value) ==
    IF value.t = "number"
    THEN IF value.n \in DOMAIN TYPE_MAP THEN Str(TYPE_MAP[value.n]) ELSE Undefined
    ELSE IF value.t = "string" THEN value ELSE Undefined

\* mutant: 562520004 is mapped to the status of 562520011
STATUS_MAP_TwoCodesOneStatus ==
    (562520000 :> "eingereicht") @@
    (562520001 :> "in Qualitätsprüfung") @@
    (562520002 :> "in Überarbeitung") @@
    (562520003 :> "in Detailanalyse") @@
    (562520005 :> "ITOT-Board vorgestellt") @@
    (562520006 :> "Projektportfolio aufgenommen") @@
    (562520007 :> "Quartalsplanung aufgenommen") @@
    (562520008 :> "Wochenplanung aufgenommen") @@
    (562520010 :> "in Umsetzung") @@
    (562520011 :> "abgeschlossen") @@
    (562520004 :> "abgeschlossen")

STATUS_MAP ==
    (562520000 :> "eingereicht") @@
    (562520001 :> "in Qualitätsprüfung") @@
    (562520002 :> "in Überarbeitung") @@
    (562520003 :> "in Detailanalyse") @@
    (562520005 :> "ITOT-Board vorgestellt") @@
    (562520006 :> "Projektportfolio aufgenommen") @@
    (562520007 :> "Quartalsplanung aufgenommen") @@
    (562520008 :> "Wochenplanung aufgenommen") @@
    (562520010 :> "in Umsetzung") @@
    (562520011 :> "abgeschlossen") @@
    (562520004 :> "abgelehnt")

\* the local list of isValidStatus
validStatuses ==
    { "eingereicht",
      "in Qualitätsprüfung",
      "in Überarbeitung",
      "in Detailanalyse",
      "ITOT-Board vorgestellt",
      "Projektportfolio aufgenommen",
      "Quartalsplanung aufgenommen",
      "Wochenplanung aufgenommen",
      "in Umsetzung",
      "abgeschlossen",
      "abgelehnt" }

isValidStatus(value) == value.t = "string" /\ value.s \in validStatuses

\* mutant: an unmatched value is passed through instead of defaulted
mapStatusValue_NoDefault(value) ==
    IF value.t = "number" /\ value.n \in DOMAIN STATUS_MAP
    THEN STATUS_MAP[value.n]
    ELSE IF value.t = "string" THEN value.s ELSE "undefined"

mapStatusValue(value) ==
    IF value.t = "number" /\ value.n \in DOMAIN STATUS_MAP
    THEN STATUS_MAP[value.n]
    ELSE IF value.t = "string" /\ isValidStatus(value)
         THEN value.s
         ELSE "eingereicht"

\* mutant: the effort is kept when it is truthy
detailAnalysisEffort_Truthy(detailAnalysisEffortRaw) ==
    IF Truthy(detailAnalysisEffortRaw) THEN detailAnalysisEffortRaw ELSE Undefined

\* typeof detailAnalysisEffortRaw === 'number' ? detailAnalysisEffortRaw : undefined
detailAnalysisEffort(detailAnalysisEffortRaw) ==
    IF detailAnalysisEffortRaw.t = "number" THEN detailAnalysisEffortRaw ELSE Undefined

mapDataverseToIdea(r) ==
    [ id |-> r[FIELD_MAP.id],
      title |-> r[FIELD_MAP.title],
      description |-> r[FIELD_MAP.description],
      submittedBy |->
          JsOr(JsOr(r[FIELD_MAP.submittedByName], r[FIELD_MAP.submittedBy]),
                   Str("Unbekannt")),
      submittedById |-> r[FIELD_MAP.submittedBy],
      type |-> mapTypeValue(r[FIELD_MAP.type]),
      status |-> mapStatusValue(r[FIELD_MAP.status]),
      responsiblePerson |-> r[FIELD_MAP.responsiblePersonName],
      subscriber |-> r[FIELD_MAP.subscriberName],
      subscriberId |-> r[FIELD_MAP.subscriber],
      createdOn |-> r[FIELD_MAP.createdOn],
      modifiedOn |-> r[FIELD_MAP.modifiedOn],
      initialReviewReason |-> r[FIELD_MAP.initialReviewReason],
      complexity |->
          JsOr(r[FIELD_MAP.complexity \o FormattedValue], r[FIELD_MAP.complexity]),
      criticality |->
          JsOr(r[FIELD_MAP.criticality \o FormattedValue], r[FIELD_MAP.criticality]),
      initialReviewDate |-> r[FIELD_MAP.initialReviewDate],
      detailAnalysisResult |-> r[FIELD_MAP.detailAnalysisResult],
      detailAnalysisBenefit |-> r[FIELD_MAP.detailAnalysisBenefit],
      detailAnalysisEffort |-> detailAnalysisEffort(r[FIELD_MAP.detailAnalysisEffort]),
      priority |->
          JsOr(r[FIELD_MAP.priority \o FormattedValue], r[FIELD_MAP.priority]),
      itotBoardReason |-> r[FIELD_MAP.itotBoardReason],
      itotBoardMeeting |-> r[FIELD_MAP.itotBoardMeetingName],
      itotBoardMeetingId |-> r[FIELD_MAP.itotBoardMeeting],
      plannedStart |-> r[FIELD_MAP.plannedStart],
      plannedEnd |-> r[FIELD_MAP.plannedEnd],
      completedOn |-> r[FIELD_MAP.completedOn],
      rejectedOn |-> r[FIELD_MAP.rejectedOn] ]

(***************************************************************************)
(* lib/fieldConfig.ts                                                      *)
(***************************************************************************)
\* FIELD_DEFINITIONS: the section of every field
FIELD_DEFINITIONS ==
    [ title |-> "Grunddaten", description |-> "Grunddaten", type |-> "Grunddaten",
      status |-> "Grunddaten", bpfStatus |-> "Grunddaten", submittedBy |-> "Grunddaten",
      responsiblePerson |-> "Grunddaten",
      initialReviewReason |-> "Initialprüfung", initialReviewDate |-> "Initialprüfung",
      complexity |-> "Detailanalyse", criticality |-> "Detailanalyse",
      priority |-> "Detailanalyse", detailAnalysisResult |-> "Detailanalyse",
      detailAnalysisBenefit |-> "Detailanalyse", detailAnalysisEffort |-> "Detailanalyse",
      itotBoardReason |-> "ITOT-Board", itotBoardMeeting |-> "ITOT-Board",
      plannedStart |-> "Planung", plannedEnd |-> "Planung",
      completedOn |-> "Abschluss", rejectedOn |-> "Abschluss",
      createdOn |-> "System", modifiedOn |-> "System" ]

FIELD_CONFIG ==
    [ s \in IdeaStatus |->
        CASE s = "eingereicht" ->
            [ visible |-> <<"title", "description", "type", "status", "bpfStatus", "submittedBy", "responsiblePerson", "createdOn", "modifiedOn">>,
              editable |-> <<"title", "description">> ]
          [] s = "in Qualitätsprüfung" ->
            [ visible |-> <<"title", "description", "type", "status", "bpfStatus", "submittedBy", "responsiblePerson", "initialReviewReason", "initialReviewDate", "createdOn", "modifiedOn">>,
              editable |-> <<>> ]
          [] s = "in Überarbeitung" ->
            [ visible |-> <<"title", "description", "type", "status", "bpfStatus", "submittedBy", "responsiblePerson", "initialReviewReason", "initialReviewDate", "createdOn", "modifiedOn">>,
              editable |-> <<"description">> ]
          [] s = "in Detailanalyse" ->
            [ visible |-> <<"title", "description", "type", "status", "bpfStatus", "submittedBy", "responsiblePerson", "initialReviewReason", "initialReviewDate", "complexity", "criticality", "priority", "detailAnalysisResult", "detailAnalysisBenefit", "detailAnalysisEffort", "createdOn", "modifiedOn">>,
              editable |-> <<>> ]
          [] s = "ITOT-Board vorgestellt" ->
            [ visible |-> <<"title", "description", "type", "status", "bpfStatus", "submittedBy", "responsiblePerson", "initialReviewReason", "initialReviewDate", "complexity", "criticality", "priority", "detailAnalysisResult", "detailAnalysisBenefit", "detailAnalysisEffort", "itotBoardReason", "itotBoardMeeting", "createdOn", "modifiedOn">>,
              editable |-> <<>> ]
          [] s \in {"Projektportfolio aufgenommen", "Quartalsplanung aufgenommen",
                    "Wochenplanung aufgenommen", "in Umsetzung"} ->
            [ visible |-> <<"title", "description", "type", "status", "bpfStatus", "submittedBy", "responsiblePerson", "initialReviewReason", "initialReviewDate", "complexity", "criticality", "priority", "detailAnalysisResult", "detailAnalysisBenefit", "detailAnalysisEffort", "itotBoardReason", "itotBoardMeeting", "plannedStart", "plannedEnd", "createdOn", "modifiedOn">>,
              editable |-> <<>> ]
          [] s = "abgeschlossen" ->
            [ visible |-> <<"title", "description", "type", "status", "bpfStatus", "submittedBy", "responsiblePerson", "initialReviewReason", "initialReviewDate", "complexity", "criticality", "priority", "detailAnalysisResult", "detailAnalysisBenefit", "detailAnalysisEffort", "itotBoardReason", "itotBoardMeeting", "plannedStart", "plannedEnd", "completedOn", "createdOn", "modifiedOn">>,
              editable |-> <<>> ]
          [] s = "abgelehnt" ->
            [ visible |-> <<"title", "description", "type", "status", "bpfStatus", "submittedBy", "responsiblePerson", "initialReviewReason", "initialReviewDate", "complexity", "criticality", "priority", "detailAnalysisResult", "detailAnalysisBenefit", "detailAnalysisEffort", "itotBoardReason", "itotBoardMeeting", "plannedStart", "plannedEnd", "rejectedOn", "createdOn", "modifiedOn">>,
              editable |-> <<>> ] ]

\* array.includes(x)
Includes(array, x) == \E i \in DOMAIN array : array[i] = x

ToSet(array) == {array[i] : i \in DOMAIN array}

(***************************************************************************)
(* app/admin/fields/page.tsx : AdminFieldsPage                             *)
(***************************************************************************)
\* mutant: the table also lets the description be edited during the quality check
StatusConfig_QualityEditable(status) ==
    IF status = "in Qualitätsprüfung"
    THEN [FIELD_CONFIG[status] EXCEPT !.editable = <<"description">>]
    ELSE FIELD_CONFIG[status]

\* mutant: a rejected idea has an editable field that its list of visible fields lacks
StatusConfig_EditableHidden(status) ==
    IF status = "abgelehnt"
    THEN [FIELD_CONFIG[status] EXCEPT !.editable = <<"completedOn">>]
    ELSE FIELD_CONFIG[status]

\* mutant: an idea in realisation no longer shows the result of the detail analysis
StatusConfig_LosesField(status) ==
    IF status = "in Umsetzung"
    THEN [FIELD_CONFIG[status] EXCEPT
            !.visible = SelectSeq(@, LAMBDA f : f # "detailAnalysisResult")]
    ELSE FIELD_CONFIG[status]

\* const config = FIELD_CONFIG[selectedStatus]
StatusConfig(status) == FIELD_CONFIG[status]

(***************************************************************************)
(* app/ideas/[id]/page.tsx : IdeaDetailPage                                *)
(***************************************************************************)
LIFECYCLE_STATUS_MAP ==
    [ s \in IdeaStatus |->
        CASE s = "eingereicht" -> [label |-> "Eingereicht", editable |-> TRUE]
          [] s = "in Qualitätsprüfung" -> [label |-> "Idee in Qualitätsprüfung", editable |-> FALSE]
          [] s = "in Überarbeitung" -> [label |-> "Idee zur Überarbeitung an Ideengebenden", editable |-> TRUE]
          [] s = "in Detailanalyse" -> [label |-> "Idee in Detailanalyse", editable |-> FALSE]
          [] s = "ITOT-Board vorgestellt" -> [label |-> "Idee wird ITOT-Board vorgestellt", editable |-> FALSE]
          [] s = "Projektportfolio aufgenommen" -> [label |-> "Idee in Projektportfolio aufgenommen", editable |-> FALSE]
          [] s = "Quartalsplanung aufgenommen" -> [label |-> "Idee in Quartalsplanung aufgenommen", editable |-> FALSE]
          [] s = "Wochenplanung aufgenommen" -> [label |-> "Idee in Wochenplanung aufgenommen", editable |-> FALSE]
          [] s = "in Umsetzung" -> [label |-> "In Umsetzung", editable |-> FALSE]
          [] s = "abgeschlossen" -> [label |-> "Abgeschlossen", editable |-> FALSE]
          [] s = "abgelehnt" -> [label |-> "Abgelehnt", editable |-> FALSE] ]

INITIAL_REVIEW_COMPLETED_STATUSES ==
    << "in Qualitätsprüfung", "in Überarbeitung", "in Detailanalyse",
       "ITOT-Board vorgestellt", "Projektportfolio aufgenommen",
       "Quartalsplanung aufgenommen", "Wochenplanung aufgenommen",
       "in Umsetzung", "abgeschlossen", "abgelehnt" >>

DETAIL_ANALYSIS_STATUSES ==
    << "in Detailanalyse", "ITOT-Board vorgestellt", "Projektportfolio aufgenommen",
       "Quartalsplanung aufgenommen", "Wochenplanung aufgenommen",
       "in Umsetzung", "abgeschlossen", "abgelehnt" >>

ITOT_BOARD_STATUSES ==
    << "ITOT-Board vorgestellt", "Projektportfolio aufgenommen",
       "Quartalsplanung aufgenommen", "Wochenplanung aufgenommen",
       "in Umsetzung", "abgeschlossen", "abgelehnt" >>

\* mutant: the planning section is rendered for a rejected idea as well
PLANNING_STATUSES_WithRejected ==
    << "Projektportfolio aufgenommen", "Quartalsplanung aufgenommen",
       "Wochenplanung aufgenommen", "in Umsetzung", "abgeschlossen", "abgelehnt" >>

PLANNING_STATUSES ==
    << "Projektportfolio aufgenommen", "Quartalsplanung aufgenommen",
       "Wochenplanung aufgenommen", "in Umsetzung", "abgeschlossen" >>

\* the stage sections that do not return null for an idea of this status
RenderedSections(status) ==
    {sec \in {"Initialprüfung", "Detailanalyse", "ITOT-Board", "Planung"} :
        \/ sec = "Initialprüfung" /\ Includes(INITIAL_REVIEW_COMPLETED_STATUSES, status)
        \/ sec = "Detailanalyse" /\ Includes(DETAIL_ANALYSIS_STATUSES, status)
        \/ sec = "ITOT-Board" /\ Includes(ITOT_BOARD_STATUSES, status)
        \/ sec = "Planung" /\ Includes(PLANNING_STATUSES, status)}

(***************************************************************************)
(* SpecView: the two status-driven pages.                                  *)
(***************************************************************************)
InitViewVars ==
    /\ selectedStatus = "eingereicht"
    /\ config = StatusConfig("eingereicht")
    /\ detailStatus = ""
    /\ sections = {}
    /\ isEditable = FALSE

\* setSelectedStatus(status) and the re-render
SelectStatus(status) ==
    /\ selectedStatus' = status
    /\ config' = StatusConfig(status)
    /\ UNCHANGED <<detailStatus, sections, isEditable, mapVars, dataVars, authVars>>

\* the detail page rendered for an idea whose mapped status is `status`
RenderDetailPage(status) ==
    /\ detailStatus' = status
    /\ sections' = RenderedSections(status)
    /\ isEditable' = LIFECYCLE_STATUS_MAP[status].editable
    /\ UNCHANGED <<selectedStatus, config, mapVars, dataVars, authVars>>

(***************************************************************************)
(* The Dataverse side: the ideas table, and the responses it gives.        *)
(***************************************************************************)
\* how many ideas are created through the application in one run
MaxCreate == 1

\* the display names of the Dataverse system users (FormattedValue of createdby)
SystemUserName ==
    ("11111111-1111-1111-1111-111111111111" :> "Max Muster") @@
    ("22222222-2222-2222-2222-222222222222" :> "Anna Beispiel")

\* cr6df_sgsw_mitarbeitendes: e-mail -> employee id
Employees == ("anna@example.com" :> "emp-anna")

\* lifecycle-status values the workflow engine (or an import) leaves in a row
PlatformStatusValues == {Num(562520000), Num(562520009), Null}

\* the record Dataverse returns for a row (Prefer: odata.include-annotations="*"):
\* a column without a value is null, an annotation without a value is left out
ToRecord(row) ==
    [ [f \in WireFields |-> Undefined] EXCEPT
        ![FIELD_MAP.id] = Str(row.id),
        ![FIELD_MAP.title] = Str(row.title),
        ![FIELD_MAP.description] = Str(row.description),
        ![FIELD_MAP.type] = row.type,
        ![FIELD_MAP.status] = row.status,
        ![FIELD_MAP.submittedBy] = Str(row.createdby),
        ![FIELD_MAP.submittedByName] = Str(SystemUserName[row.createdby]),
        ![FIELD_MAP.ideengeberId] =
            IF row.ideengeber = "" THEN Null ELSE Str(row.ideengeber),
        ![FIELD_MAP.createdOn] = Str("2024-11-15T09:30:00Z"),
        ![FIELD_MAP.subscriber] =
            IF row.subscriber = "" THEN Null ELSE Str(row.subscriber),
        ![FIELD_MAP.responsiblePerson] = Null,
        ![FIELD_MAP.itotBoardMeeting] = Null ]

InitialTable ==
    << [ id |-> "guid-old-1",
         title |-> "Digitale Zeiterfassung per App",
         description |-> "Aktuell erfassen wir Arbeitszeiten noch auf Papier.",
         type |-> Num(562520000),
         status |-> Num(562520000),
         createdby |-> "11111111-1111-1111-1111-111111111111",
         ideengeber |-> "",
         subscriber |-> "",
         stage |-> "Initialisierung" ] >>

RowIds == {table[i].id : i \in DOMAIN table}
RowOf(id) == table[CHOOSE i \in DOMAIN table : table[i].id = id]

\* an HTTP exchange ends in a response, or fetch() rejects (network error)
\* A response has a status, a status text (message) and a body. Of the body
\* the code reads: whether it parses as JSON, its error.message ("" when it
\* has none), JSON.stringify of the parsed value, and the raw text.
NoContent == [json |-> FALSE, text |-> "", stringified |-> "", message |-> ""]

\* the error body Dataverse answers with
ODataError(message) ==
    [ json |-> TRUE,
      text |-> "{ \"error\": { \"message\": \"" \o message \o "\" } }",
      stringified |-> "{\"error\":{\"message\":\"" \o message \o "\"}}",
      message |-> message ]

Rejected == [ok |-> FALSE, status |-> 0, message |-> "fetch failed", body |-> NoContent]
Ok == [ok |-> TRUE, status |-> 200, message |-> "", body |-> NoContent]
ErrorResponses ==
    { [ok |-> FALSE, status |-> 401, message |-> "Unauthorized",
       body |-> ODataError("The token has expired.")],
      [ok |-> FALSE, status |-> 404, message |-> "Not Found",
       body |-> ODataError("Entity does not exist.")],
      [ok |-> FALSE, status |-> 500, message |-> "Internal Server Error",
       body |-> ODataError("An unexpected error occurred.")] }
Responses == {Ok, Rejected} \cup ErrorResponses

(***************************************************************************)
(* lib/dataverse.ts : configuration, token                                 *)
(***************************************************************************)
\* the dataverse_token cookie a request arrives with ("" when it has none)
Cookies == {"", "token-anna", "token-no-name"}

\* getAccessToken: the cookie, else DATAVERSE_ACCESS_TOKEN
getAccessToken(cookie) ==
    IF cookie # "" THEN cookie ELSE IF env.token THEN "env-token" ELSE ""

\* mutant: only the platform URL is looked at
isDataverseConfigured_UrlOnly(cookie) == env.url

isDataverseConfigured(cookie) ==
    IF ~env.url THEN FALSE ELSE getAccessToken(cookie) # ""

(***************************************************************************)
(* lib/auth.ts (hybrid revision): the current user                         *)
(***************************************************************************)
\* the claims a token carries; a token that cannot be decoded has none
NoPayload == [decoded |-> FALSE, email |-> Undefined, upn |-> Undefined,
              preferred_username |-> Undefined, unique_name |-> Undefined,
              name |-> Undefined, given_name |-> Undefined]

decodeJwtPayload(token) ==
    CASE token = "token-anna" ->
            [NoPayload EXCEPT !.decoded = TRUE,
                              !.email = Str("anna@example.com"),
                              !.name = Str("Anna Beispiel")]
      [] token = "token-max" ->
            [NoPayload EXCEPT !.decoded = TRUE,
                              !.email = Str("max@example.com"),
                              !.name = Str("Max Muster")]
      [] token = "token-no-name" ->
            [NoPayload EXCEPT !.decoded = TRUE, !.upn = Str("max@example.com")]
      [] OTHER -> NoPayload

\* the position of the first occurrence of the one-character string c in s, or 0
RECURSIVE IndexFrom(_, _, _)
IndexFrom(s, c, i) ==
    IF i > Len(s) THEN 0
    ELSE IF SubSeq(s, i, i) = c THEN i
    ELSE IndexFrom(s, c, i + 1)

\* s.split(sep)[0]
SplitFirst(s, sep) ==
    LET k == IndexFrom(s, sep, 1)
    IN  IF k = 0 THEN s ELSE SubSeq(s, 1, k - 1)

NoUser == [found |-> FALSE, name |-> "", email |-> "", source |-> ""]

extractUserFromToken(token) ==
    LET payload == decodeJwtPayload(token)
        email == JsOr(JsOr(JsOr(payload.email, payload.upn),
                           payload.preferred_username), payload.unique_name)
        name == JsOr(JsOr(JsOr(payload.name, payload.given_name),
                          IF email.t = "string"
                          THEN Str(SplitFirst(email.s, "@")) ELSE Undefined),
                     Str("Unbekannt"))
    IN  IF ~payload.decoded THEN NoUser
        ELSE IF Truthy(email)
             THEN [found |-> TRUE, name |-> name.s, email |-> email.s, source |-> "token"]
             ELSE NoUser

getCurrentUserAsync(cookie) ==
    LET userFromToken == extractUserFromToken(cookie)
    IN  IF cookie # "" /\ userFromToken.found THEN userFromToken
        ELSE IF env.userEmail # ""
             THEN [found |-> TRUE,
                   name |-> IF env.userName # "" THEN env.userName
                            ELSE SplitFirst(env.userEmail, "@"),
                   email |-> env.userEmail, source |-> "env"]
             ELSE [found |-> TRUE, name |-> "Demo User",
                   email |-> "demo@example.com", source |-> "fallback"]

(***************************************************************************)
(* lib/validators.ts : createIdeaSchema, editIdeaSchema                    *)
(***************************************************************************)
\* s repeated n times, built by doubling
RECURSIVE Rep(_, _)
Rep(s, n) ==
    IF n = 0 THEN ""
    ELSE LET half == Rep(s, n \div 2)
         IN  IF n % 2 = 0 THEN half \o half ELSE half \o half \o s

\* issue messages joined with ", "
RECURSIVE Join(_)
Join(messages) ==
    IF messages = <<>> THEN ""
    ELSE IF Len(messages) = 1 THEN messages[1]
    ELSE messages[1] \o ", " \o Join(Tail(messages))

TitleIssues(title) ==
    IF Len(title) < 5 THEN <<"Der Titel muss mindestens 5 Zeichen lang sein.">>
    ELSE IF Len(title) > 200 THEN <<"Der Titel darf maximal 200 Zeichen lang sein.">>
    ELSE <<>>

\* mutant: a description of exactly 20 characters is refused
DescriptionIssues_Above20(description) ==
    IF Len(description) <= 20
    THEN <<"Die Beschreibung muss mindestens 20 Zeichen lang sein.">>
    ELSE IF Len(description) > 4000
    THEN <<"Die Beschreibung darf maximal 4000 Zeichen lang sein.">>
    ELSE <<>>

DescriptionIssues(description) ==
    IF Len(description) < 20
    THEN <<"Die Beschreibung muss mindestens 20 Zeichen lang sein.">>
    ELSE IF Len(description) > 4000
    THEN <<"Die Beschreibung darf maximal 4000 Zeichen lang sein.">>
    ELSE <<>>

\* createIdeaSchema.safeParse(data).error.issues, empty on success
createIdeaSchema(data) == TitleIssues(data.title) \o DescriptionIssues(data.description)

\* editIdeaSchema.safeParse(data).error.issues, empty on success
editIdeaSchema(data) == DescriptionIssues(data.description)

\* what a user (or any caller of the server action) hands to submitIdea
CreateInputs ==
    { [title |-> "Digitale Zeiterfassung", description |-> "Zeiterfassung per App neu"],
      [title |-> "Ideen", description |-> Rep("d", 4000)],
      [title |-> Rep("t", 200), description |-> "Zwanzig Zeichen lang"],
      [title |-> "Idee", description |-> Rep("d", 4001)],
      [title |-> Rep("t", 201), description |-> "zu kurz"] }

(***************************************************************************)
(* The record of the last call                                             *)
(***************************************************************************)
NoResult == [success |-> FALSE, error |-> "", ideaId |-> ""]

NoCall ==
    [ fn |-> "",             \* the function or server action called
      cookie |-> "",         \* the dataverse_token cookie of the request
      input |-> <<>>,        \* its arguments
      requests |-> <<>>,     \* the HTTP requests it sent, in order
      responses |-> <<>>,    \* the responses to those requests
      returned |-> "",       \* "ideas", "idea", "null", "result", "void"
      ideas |-> <<>>,        \* the Idea objects returned (or built and returned)
      result |-> NoResult,   \* the result object of a server action
      header |-> Null,       \* the OData-EntityId header of the POST response
      uuid |-> "" ]          \* what crypto.randomUUID() gave, when it was called

Request(method, target, body) == [method |-> method, target |-> target, body |-> body]

TABLE_NAME == "cr6df_sgsw_digitalisierungsvorhabens"
BPF_TABLE_NAME == "cr6df_ideatosolutions"
EMPLOYEE_TABLE_NAME == "cr6df_sgsw_mitarbeitendes"

(***************************************************************************)
(* lib/dataverse.ts : the sample dataset                                   *)
(***************************************************************************)
\* an Idea object none of whose optional properties is set
EmptyIdea ==
    [ id |-> Undefined, title |-> Undefined, description |-> Undefined,
      submittedBy |-> Undefined, submittedById |-> Undefined, type |-> Undefined,
      status |-> "undefined", responsiblePerson |-> Undefined, subscriber |-> Undefined,
      subscriberId |-> Undefined, createdOn |-> Undefined, modifiedOn |-> Undefined,
      initialReviewReason |-> Undefined, complexity |-> Undefined,
      criticality |-> Undefined, initialReviewDate |-> Undefined,
      detailAnalysisResult |-> Undefined, detailAnalysisBenefit |-> Undefined,
      detailAnalysisEffort |-> Undefined, priority |-> Undefined,
      itotBoardReason |-> Undefined, itotBoardMeeting |-> Undefined,
      itotBoardMeetingId |-> Undefined, plannedStart |-> Undefined,
      plannedEnd |-> Undefined, completedOn |-> Undefined, rejectedOn |-> Undefined ]

\* mutant: a sample idea carries a status of the retired naming
getMockIdeas_OldStatus ==
    << [EmptyIdea EXCEPT
          !.id = Str("550e8400-e29b-41d4-a716-446655440001"),
          !.title = Str("Digitale Zeiterfassung per App"),
          !.submittedBy = Str("Max Muster"),
          !.type = Str("Idee"),
          !.status = "initialgeprüft"] >>

getMockIdeas ==
    << [EmptyIdea EXCEPT
          !.id = Str("550e8400-e29b-41d4-a716-446655440001"),
          !.title = Str("Digitale Zeiterfassung per App"),
          !.description = Str("Aktuell erfassen wir Arbeitszeiten noch auf Papier oder in Excel. Eine mobile App würde den Prozess vereinfachen und Fehler reduzieren. Die App sollte offline funktionieren und sich mit unserem HR-System synchronisieren."),
          !.submittedBy = Str("Max Muster"),
          !.submittedById = Str("11111111-1111-1111-1111-111111111111"),
          !.type = Str("Idee"),
          !.status = "in Qualitätsprüfung",
          !.createdOn = Str("2024-11-15T09:30:00Z")],
       [EmptyIdea EXCEPT
          !.id = Str("550e8400-e29b-41d4-a716-446655440002"),
          !.title = Str("Automatisierte Rechnungsverarbeitung"),
          !.description = Str("Eingehende Rechnungen werden manuell in unser System eingegeben. Mit OCR und KI könnten wir diesen Prozess automatisieren. Das spart Zeit und reduziert Eingabefehler erheblich."),
          !.submittedBy = Str("Anna Beispiel"),
          !.submittedById = Str("22222222-2222-2222-2222-222222222222"),
          !.type = Str("Vorhaben"),
          !.status = "Projektportfolio aufgenommen",
          !.createdOn = Str("2024-11-10T14:15:00Z")],
       [EmptyIdea EXCEPT
          !.id = Str("550e8400-e29b-41d4-a716-446655440003"),
          !.title = Str("Self-Service Portal für Mitarbeitende"),
          !.description = Str("Viele HR-Anfragen (Feriensaldo, Lohnabrechnung, Adressänderung) könnten über ein Portal selbst erledigt werden. Das entlastet die HR-Abteilung und gibt Mitarbeitenden mehr Autonomie."),
          !.submittedBy = Str("Peter Müller"),
          !.submittedById = Str("33333333-3333-3333-3333-333333333333"),
          !.type = Str("Projekt"),
          !.status = "in Umsetzung",
          !.createdOn = Str("2024-11-20T11:00:00Z")] >>

(***************************************************************************)
(* lib/dataverse.ts : fetchAllIdeas, fetchIdeaById                         *)
(***************************************************************************)
IdeasUrl == TABLE_NAME \o "?$orderby=createdon desc"
IdeaUrl(id) == TABLE_NAME \o "(" \o id \o ")"
NoBody == <<>>

\* the pair or triple of a call: was fetch() rejected for one of the requests
AnyRejected(responses) == \E i \in DOMAIN responses : responses[i] = Rejected

\* bpfMap.get(idea.id) after the BPF response was read
BpfStatusOf(row, bpfResponse) ==
    IF bpfResponse.ok /\ row.stage # "" THEN Str(row.stage) ELSE Undefined

\* what the list page hands to DataverseDebugInfo, which renders its warning
\* only when isConfigured is false
getDataverseDebugInfo(cookie) ==
    [ isConfigured |-> env.url /\ getAccessToken(cookie) # "",
      hasUrl |-> env.url,
      hasToken |-> getAccessToken(cookie) # "" ]

\* mutant: the two requests are awaited one by one and a rejected BPF request
\* is treated like a non-OK BPF response
fetchAllIdeas_BpfSettled(cookie, ideasResponse, bpfResponse) ==
    IF ~isDataverseConfigured(cookie) THEN getMockIdeas
    ELSE IF ideasResponse = Rejected THEN getMockIdeas
    ELSE IF ~ideasResponse.ok THEN getMockIdeas
    ELSE [i \in DOMAIN table |->
             [bpfStatus |-> BpfStatusOf(table[i], bpfResponse)]
                 @@ mapDataverseToIdea(ToRecord(table[i]))]

\* mutant: a refused list read returns no ideas
fetchAllIdeas_EmptyWhenRefused(cookie, ideasResponse, bpfResponse) ==
    IF ~isDataverseConfigured(cookie) THEN getMockIdeas
    ELSE IF AnyRejected(<<ideasResponse, bpfResponse>>) THEN getMockIdeas
    ELSE IF ~ideasResponse.ok THEN <<>>
    ELSE [i \in DOMAIN table |->
             [bpfStatus |-> BpfStatusOf(table[i], bpfResponse)]
                 @@ mapDataverseToIdea(ToRecord(table[i]))]

fetchAllIdeas(cookie, ideasResponse, bpfResponse) ==
    IF ~isDataverseConfigured(cookie) THEN getMockIdeas
    ELSE IF AnyRejected(<<ideasResponse, bpfResponse>>) THEN getMockIdeas
    ELSE IF ~ideasResponse.ok THEN getMockIdeas
    ELSE [i \in DOMAIN table |->
             [bpfStatus |-> BpfStatusOf(table[i], bpfResponse)]
                 @@ mapDataverseToIdea(ToRecord(table[i]))]

FetchAllIdeas(cookie, ideasResponse, bpfResponse) ==
    /\ call = NoCall
    /\ \E ideas \in {fetchAllIdeas(cookie, ideasResponse, bpfResponse)} :
       call' = [NoCall EXCEPT
          !.fn = "fetchAllIdeas",
          !.cookie = cookie,
          !.requests = IF isDataverseConfigured(cookie)
                       THEN <<Request("GET", IdeasUrl, NoBody),
                              Request("GET", BPF_TABLE_NAME, NoBody)>>
                       ELSE <<>>,
          !.responses = IF isDataverseConfigured(cookie)
                        THEN <<ideasResponse, bpfResponse>> ELSE <<>>,
          !.returned = "ideas",
          !.ideas = ideas]
    /\ UNCHANGED <<env, table, forms, mapVars, viewVars, authVars>>

\* mockIdeas.find((idea) => idea.id === id) || null, as a list of 0 or 1 ideas
FindMock(id) ==
    LET hits == {i \in DOMAIN getMockIdeas : getMockIdeas[i].id = Str(id)}
    IN  IF hits = {} THEN <<>>
        ELSE <<getMockIdeas[CHOOSE i \in hits : \A j \in hits : i <= j]>>

\* mutant: a refused single-idea read falls back to the sample ideas
fetchIdeaById_MockWhenRefused(cookie, id, response) ==
    IF ~isDataverseConfigured(cookie) THEN FindMock(id)
    ELSE IF response = Rejected THEN FindMock(id)
    ELSE IF response.status = 404 THEN <<>>
    ELSE IF ~response.ok THEN FindMock(id)
    ELSE <<mapDataverseToIdea(ToRecord(RowOf(id)))>>

fetchIdeaById(cookie, id, response) ==
    IF ~isDataverseConfigured(cookie) THEN FindMock(id)
    ELSE IF response = Rejected THEN <<>>
    ELSE IF response.status = 404 THEN <<>>
    ELSE IF ~response.ok THEN <<>>
    ELSE <<mapDataverseToIdea(ToRecord(RowOf(id)))>>

\* the ids a caller asks for: rows of the table, sample ideas, and an unknown id
AskedIds ==
    RowIds \cup {"550e8400-e29b-41d4-a716-446655440002", "no-such-id"}

FetchIdeaById(cookie, id, response) ==
    \* Dataverse answers 200 only for a row it holds
    /\ call = NoCall
    /\ (isDataverseConfigured(cookie) /\ response = Ok) => id \in RowIds
    /\ \E found \in {fetchIdeaById(cookie, id, response)} :
       call' = [NoCall EXCEPT
          !.fn = "fetchIdeaById",
          !.cookie = cookie,
          !.input = [id |-> id],
          !.requests = IF isDataverseConfigured(cookie)
                       THEN <<Request("GET", IdeaUrl(id), NoBody)>> ELSE <<>>,
          !.responses = IF isDataverseConfigured(cookie) THEN <<response>> ELSE <<>>,
          !.returned = IF found = <<>> THEN "null" ELSE "idea",
          !.ideas = found]
    /\ UNCHANGED <<env, table, forms, mapVars, viewVars, authVars>>

(***************************************************************************)
(* lib/dataverse.ts : findEmployeeByEmail, createIdea                      *)
(***************************************************************************)
\* the employee id found for the e-mail, "" for null
findEmployeeByEmail(cookie, email, response) ==
    IF ~isDataverseConfigured(cookie) THEN ""
    ELSE IF response = Rejected THEN ""
    ELSE IF ~response.ok THEN ""
    ELSE IF email \in DOMAIN Employees THEN Employees[email]
    ELSE ""

EmployeeUrl(email) ==
    EMPLOYEE_TABLE_NAME \o "?$filter=cr6df_email eq '" \o email \o "'"

IdeengeberBind == "cr6df_ideengeber@odata.bind"

BindTo(ideengeberId) == Str("/" \o EMPLOYEE_TABLE_NAME \o "(" \o ideengeberId \o ")")

\* the JSON body of the POST
CreateBody(input, ideengeberId) ==
    LET body == (FIELD_MAP.title :> Str(input.title)) @@
                (FIELD_MAP.description :> Str(input.description)) @@
                (FIELD_MAP.type :> Num(562520000))
    IN  IF ideengeberId # ""
        THEN body @@ (IdeengeberBind :> BindTo(ideengeberId))
        ELSE body

\* mutant: the details are always error.message of the body
errorDetails_MessageOnly(response) == response.body.message

\* errorDetails of a response that is not OK: error.message of the JSON body,
\* or the whole JSON when that is empty; for a body that is not JSON
\* response.json() has consumed the body when it throws, so response.text()
\* rejects and the fixed text is taken
errorDetails(response) ==
    IF response.body.json
    THEN IF response.body.message # "" THEN response.body.message
         ELSE response.body.stringified
    ELSE "Keine Details verfügbar"

\* new Error(`Dataverse ${response.status}: ${errorDetails}`).message
WriteErrorMessage(response) ==
    "Dataverse " \o ToString(response.status) \o ": " \o errorDetails(response)

\* A header value is written as the sequence of its pieces: each piece is "(",
\* ")" or a run of characters that holds neither, which is all the pattern
\* /\(([^)]+)\)/ tells apart.
RECURSIVE Concat(_)
Concat(pieces) == IF pieces = <<>> THEN "" ELSE Head(pieces) \o Concat(Tail(pieces))

\* the index of the first ")" at or after position i, or 0
RECURSIVE ClosingFrom(_, _)
ClosingFrom(pieces, i) ==
    IF i > Len(pieces) THEN 0
    ELSE IF pieces[i] = ")" THEN i
    ELSE ClosingFrom(pieces, i + 1)

\* locationHeader.match(/\(([^)]+)\)/)[1], "" when there is no match
RECURSIVE MatchFrom(_, _)
MatchFrom(pieces, i) ==
    IF i > Len(pieces) THEN ""
    ELSE IF pieces[i] # "(" THEN MatchFrom(pieces, i + 1)
    ELSE LET j == ClosingFrom(pieces, i + 1)
         IN  IF j = 0 THEN ""
             ELSE IF j = i + 1 THEN MatchFrom(pieces, i + 1)
             ELSE Concat(SubSeq(pieces, i + 1, j - 1))

\* idMatch?.[1], "" for undefined
idMatch(locationHeader) ==
    IF locationHeader.t = "string" THEN MatchFrom(locationHeader.s, 1) ELSE ""

\* mutant: the response header is ignored
newId_AlwaysRandom(locationHeader, uuid) == uuid

\* idMatch?.[1] || crypto.randomUUID()
newId(locationHeader, uuid) ==
    IF idMatch(locationHeader) # "" THEN idMatch(locationHeader) ELSE uuid

Now == "2024-12-01T08:00:00.000Z"

\* the Idea object createIdea builds for its caller
CreatedIdea(id, input, submittedBy) ==
    [EmptyIdea EXCEPT
        !.id = Str(id),
        !.title = Str(input.title),
        !.description = Str(input.description),
        !.submittedBy = Str(submittedBy),
        !.type = Str("Idee"),
        !.status = "eingereicht",
        !.createdOn = Str(Now)]

\* the outcome of createIdea: the idea returned, or the error thrown
\* mutant: no POST for a title and description the table already holds
createIdea_ChecksDuplicate(cookie, input, submittedBy, userEmail, employeeResponse, postResponse, locationHeader, uuid) ==
    LET duplicate == \E i \in DOMAIN table :
                        /\ table[i].title = input.title
                        /\ table[i].description = input.description
    IN  IF ~isDataverseConfigured(cookie)
        THEN [ thrown |-> FALSE, message |-> "", requests |-> <<>>, responses |-> <<>>,
               uuid |-> uuid, ideas |-> <<CreatedIdea(uuid, input, submittedBy)>> ]
        ELSE IF duplicate \/ ~postResponse.ok
        THEN [ thrown |-> TRUE, message |-> "Diese Idee wurde bereits eingereicht.",
               requests |-> <<>>, responses |-> <<>>, uuid |-> "", ideas |-> <<>> ]
        ELSE [ thrown |-> FALSE, message |-> "",
               requests |-> <<Request("POST", TABLE_NAME, CreateBody(input, ""))>>,
               responses |-> <<postResponse>>,
               uuid |-> IF idMatch(locationHeader) # "" THEN "" ELSE uuid,
               ideas |-> <<CreatedIdea(newId(locationHeader, uuid), input, submittedBy)>> ]

createIdea(cookie, input, submittedBy, userEmail, employeeResponse, postResponse, locationHeader, uuid) ==
    LET ideengeberId ==
            IF userEmail # ""
            THEN findEmployeeByEmail(cookie, userEmail, employeeResponse) ELSE ""
        lookup == IF userEmail # ""
                  THEN <<Request("GET", EmployeeUrl(userEmail), NoBody)>> ELSE <<>>
        post == Request("POST", TABLE_NAME, CreateBody(input, ideengeberId))
    IN  IF ~isDataverseConfigured(cookie)
        THEN [ thrown |-> FALSE, message |-> "", requests |-> <<>>, responses |-> <<>>,
               uuid |-> uuid, ideas |-> <<CreatedIdea(uuid, input, submittedBy)>> ]
        ELSE IF postResponse = Rejected
        THEN [ thrown |-> TRUE, message |-> Rejected.message,
               requests |-> lookup \o <<post>>,
               responses |-> (IF userEmail # "" THEN <<employeeResponse>> ELSE <<>>)
                                 \o <<postResponse>>,
               uuid |-> "", ideas |-> <<>> ]
        ELSE IF ~postResponse.ok
        THEN [ thrown |-> TRUE, message |-> WriteErrorMessage(postResponse),
               requests |-> lookup \o <<post>>,
               responses |-> (IF userEmail # "" THEN <<employeeResponse>> ELSE <<>>)
                                 \o <<postResponse>>,
               uuid |-> "", ideas |-> <<>> ]
        ELSE [ thrown |-> FALSE, message |-> "",
               requests |-> lookup \o <<post>>,
               responses |-> (IF userEmail # "" THEN <<employeeResponse>> ELSE <<>>)
                                 \o <<postResponse>>,
               uuid |-> IF idMatch(locationHeader) # "" THEN "" ELSE uuid,
               ideas |-> <<CreatedIdea(newId(locationHeader, uuid), input, submittedBy)>> ]

(***************************************************************************)
(* app/ideas/new/actions.ts : submitIdea; and what Dataverse does with     *)
(* the POST                                                                *)
(***************************************************************************)
\* the id Dataverse gives to the next record it creates
NextRecordId == "guid-new-" \o ToString(Len(table))

EntitySetUrl == "https://org.crm4.dynamics.com/api/data/v9.2/" \o TABLE_NAME

\* the OData-EntityId header of a 2xx answer: the URL of the new entity, or a
\* header that an intermediary removed or rewrote
LocationHeaders ==
    { Str(<<EntitySetUrl, "(", NextRecordId, ")">>),
      Null,
      Str(<<EntitySetUrl>>),
      Str(<<EntitySetUrl, "(", ")">>),
      Str(<<EntitySetUrl, "(", ")", "(", "(", NextRecordId, ")">>) }

\* the row Dataverse creates for a POST body: createdby is the user of the token,
\* the lifecycle status is the column's default
CreatedRow(body) ==
    [ id |-> NextRecordId,
      title |-> body[FIELD_MAP.title].s,
      description |-> body[FIELD_MAP.description].s,
      type |-> body[FIELD_MAP.type],
      status |-> Num(562520000),
      createdby |-> "22222222-2222-2222-2222-222222222222",
      ideengeber |-> IF IdeengeberBind \in DOMAIN body
                     THEN CHOOSE e \in {Employees[m] : m \in DOMAIN Employees} :
                             body[IdeengeberBind] = BindTo(e)
                     ELSE "",
      subscriber |-> "",
      stage |-> "Initialisierung" ]

UUIDs == {"3f2b8c1e-0000-4000-8000-000000000001"}

submitIdea(cookie, data, employeeResponse, postResponse, locationHeader, uuid) ==
    LET issues == createIdeaSchema(data)
        currentUser == getCurrentUserAsync(cookie)
        created == createIdea(cookie, data, currentUser.name, currentUser.email,
                              employeeResponse, postResponse, locationHeader, uuid)
    IN  IF issues # <<>>
        THEN [ thrown |-> FALSE, message |-> "", requests |-> <<>>, responses |-> <<>>,
               uuid |-> "", ideas |-> <<>>,
               result |-> [success |-> FALSE, error |-> Join(issues), ideaId |-> ""] ]
        ELSE IF created.thrown
        THEN created @@
             [ result |-> [success |-> FALSE,
                           error |-> "Fehler beim Speichern: " \o created.message,
                           ideaId |-> ""] ]
        ELSE created @@
             [ result |-> [success |-> TRUE, error |-> "",
                           ideaId |-> created.ideas[1].id.s] ]

\* submitIdea runs and its requests are carried out; Dataverse holds at most
\* limit created rows
SubmitIdeaRun(cookie, data, employeeResponse, postResponse, locationHeader, uuid, lost, limit) ==
    /\ call = NoCall
    /\ \E out \in {submitIdea(cookie, data, employeeResponse, postResponse,
                              locationHeader, uuid)} :
          LET posts == {i \in DOMAIN out.requests : out.requests[i].method = "POST"}
              \* a POST whose answer never arrived may have been carried out all the same
              stored == posts # {} /\ (postResponse.ok \/ (postResponse = Rejected /\ lost))
          IN  /\ stored => Len(table) - Len(InitialTable) < limit
              /\ table' = IF stored
                          THEN <<CreatedRow(out.requests[CHOOSE i \in posts : TRUE].body)>>
                                   \o table
                          ELSE table
              /\ call' = [NoCall EXCEPT
                    !.fn = "submitIdea",
                    !.cookie = cookie,
                    !.input = data,
                    !.requests = out.requests,
                    !.responses = out.responses,
                    !.returned = "result",
                    !.ideas = out.ideas,
                    !.result = out.result,
                    !.header = IF posts # {} /\ postResponse.ok
                               THEN locationHeader ELSE Null,
                    !.uuid = out.uuid]

\* the server action is called
SubmitIdea(cookie, data, employeeResponse, postResponse, locationHeader, uuid, lost) ==
    /\ SubmitIdeaRun(cookie, data, employeeResponse, postResponse, locationHeader, uuid,
                     lost, MaxCreate)
    /\ UNCHANGED <<env, forms, mapVars, viewVars, authVars>>

\* the outcome of the call has been delivered to its caller (the page is
\* rendered, the form has shown the result); the next request can be served
Delivered ==
    /\ call # NoCall
    /\ call' = NoCall
    /\ UNCHANGED <<env, table, forms, mapVars, viewVars, authVars>>

\* the workflow in Power Apps moves an idea to another lifecycle status
PlatformSetStatus(i, v) ==
    /\ i \in DOMAIN table
    /\ table[i].status # v
    /\ call = NoCall
    /\ table' = [table EXCEPT ![i].status = v]
    /\ UNCHANGED <<env, call, forms, mapVars, viewVars, authVars>>

\* the settings of a deployment with Dataverse connected
DefaultEnv ==
    [ url |-> TRUE,            \* DATAVERSE_URL is set
      token |-> TRUE,          \* DATAVERSE_ACCESS_TOKEN is set
      userEmail |-> "",        \* CURRENT_USER_EMAIL
      userName |-> "",         \* CURRENT_USER_NAME
      mockUserName |-> "",     \* MOCK_USER_NAME
      ownerCheck |-> "prototype" ]  \* the revision of isIdeaOwner that is deployed

InitDataVars ==
    /\ env = DefaultEnv
    /\ table = InitialTable
    /\ call = NoCall
    /\ forms = [a \in Actors |-> NoForm]


(***************************************************************************)
(* lib/auth.ts : isIdeaOwner, in its two revisions                         *)
(***************************************************************************)
UpperCase == <<"A", "B", "C", "D", "E", "F", "G", "H", "I", "J", "K", "L", "M",
               "N", "O", "P", "Q", "R", "S", "T", "U", "V", "W", "X", "Y", "Z">>
LowerCase == <<"a", "b", "c", "d", "e", "f", "g", "h", "i", "j", "k", "l", "m",
               "n", "o", "p", "q", "r", "s", "t", "u", "v", "w", "x", "y", "z">>

\* s.toLowerCase()
RECURSIVE toLowerCase(_)
toLowerCase(s) ==
    IF s = "" THEN ""
    ELSE LET c == SubSeq(s, 1, 1)
             k == {i \in DOMAIN UpperCase : UpperCase[i] = c}
         IN  (IF k = {} THEN c ELSE LowerCase[CHOOSE i \in k : TRUE])
                 \o toLowerCase(SubSeq(s, 2, Len(s)))

\* getCurrentUser().name of the mock-user revision
getCurrentUser == IF env.mockUserName # "" THEN env.mockUserName ELSE "Demo User"

isIdeaOwner(ideaSubmittedBy) ==
    IF env.ownerCheck = "prototype" THEN TRUE
    ELSE IF ~Truthy(ideaSubmittedBy) THEN FALSE
    ELSE toLowerCase(getCurrentUser) = toLowerCase(ideaSubmittedBy.s)

(***************************************************************************)
(* lib/dataverse.ts : updateIdeaDescription                                *)
(* app/ideas/[id]/edit/actions.ts : updateIdea                             *)
(***************************************************************************)
\* mutant: the status is reset on every save
UpdateBody_AlwaysReset(description, currentStatus) ==
    (FIELD_MAP.description :> Str(description)) @@ (FIELD_MAP.status :> Num(562520000))

\* the JSON body of the PATCH
UpdateBody(description, currentStatus) ==
    LET body == (FIELD_MAP.description :> Str(description))
    IN  IF currentStatus = Str("in Überarbeitung")
        THEN body @@ (FIELD_MAP.status :> Num(562520000))
        ELSE body

\* the outcome of updateIdeaDescription: it returns, or the error thrown
updateIdeaDescription(cookie, id, description, currentStatus, response) ==
    LET patch == Request("PATCH", IdeaUrl(id), UpdateBody(description, currentStatus))
    IN  IF ~isDataverseConfigured(cookie)
        THEN [thrown |-> FALSE, message |-> "", requests |-> <<>>, responses |-> <<>>]
        ELSE IF response = Rejected
        THEN [thrown |-> TRUE, message |-> Rejected.message,
              requests |-> <<patch>>, responses |-> <<response>>]
        ELSE IF ~response.ok
        THEN [thrown |-> TRUE, message |-> WriteErrorMessage(response),
              requests |-> <<patch>>, responses |-> <<response>>]
        ELSE [thrown |-> FALSE, message |-> "",
              requests |-> <<patch>>, responses |-> <<response>>]

\* what is handed to updateIdea as data
EditInputs ==
    { [description |-> "Neue Beschreibung der Idee, Fassung A"],
      [description |-> "Neue Beschreibung der Idee, Fassung B"],
      [description |-> "zu kurz"] }

updateIdea(cookie, id, data, currentStatus, response) ==
    LET issues == editIdeaSchema(data)
        updated == updateIdeaDescription(cookie, id, data.description, currentStatus, response)
    IN  IF issues # <<>>
        THEN [ requests |-> <<>>, responses |-> <<>>,
               result |-> [success |-> FALSE, error |-> Join(issues), ideaId |-> ""] ]
        ELSE IF updated.thrown
        THEN [ requests |-> updated.requests, responses |-> updated.responses,
               result |-> [success |-> FALSE,
                           error |-> "Fehler beim Speichern: " \o updated.message,
                           ideaId |-> ""] ]
        ELSE [ requests |-> updated.requests, responses |-> updated.responses,
               result |-> [success |-> TRUE, error |-> "", ideaId |-> ""] ]

(***************************************************************************)
(* What Dataverse does with a PATCH                                        *)
(***************************************************************************)
SubscriberText == "cr6df_abonnenten"
SubscriberBind == "cr6df_abonnenten@odata.bind"

\* the row after the properties of the body have been written to it
\* mutant: a description that was edited once is kept, the first edit wins
ApplyPatch_FirstEditWins(row, body) ==
    [ row EXCEPT
        !.description = IF FIELD_MAP.description \in DOMAIN body
                           /\ \E i \in DOMAIN InitialTable : InitialTable[i].description = @
                        THEN body[FIELD_MAP.description].s ELSE @,
        !.status = IF FIELD_MAP.status \in DOMAIN body THEN body[FIELD_MAP.status] ELSE @ ]

ApplyPatch(row, body) ==
    [ row EXCEPT
        !.title = IF FIELD_MAP.title \in DOMAIN body THEN body[FIELD_MAP.title].s ELSE @,
        !.description = IF FIELD_MAP.description \in DOMAIN body
                        THEN body[FIELD_MAP.description].s ELSE @,
        !.status = IF FIELD_MAP.status \in DOMAIN body THEN body[FIELD_MAP.status] ELSE @,
        !.subscriber = IF SubscriberText \in DOMAIN body THEN body[SubscriberText].s
                       ELSE IF SubscriberBind \in DOMAIN body
                       THEN (IF body[SubscriberBind] = Null THEN ""
                             ELSE CHOOSE e \in {Employees[m] : m \in DOMAIN Employees} :
                                     body[SubscriberBind] = BindTo(e))
                       ELSE @ ]

\* Dataverse answers a PATCH with 2xx only for a row it holds
Answered(out, id) ==
    \A k \in DOMAIN out.requests :
        (out.requests[k].method = "PATCH" /\ out.responses[k].ok) => id \in RowIds

\* the table after the requests of a call: a PATCH that was answered OK has been
\* carried out, one whose answer never arrived may have been carried out
Patched(requests, responses, lost) ==
    [ i \in DOMAIN table |->
        LET hits == { k \in DOMAIN requests :
                        /\ requests[k].method = "PATCH"
                        /\ requests[k].target = IdeaUrl(table[i].id)
                        /\ responses[k].ok \/ (responses[k] = Rejected /\ lost) }
        IN  IF hits = {} THEN table[i]
            ELSE ApplyPatch(table[i], requests[CHOOSE k \in hits : TRUE].body) ]

(***************************************************************************)
(* app/ideas/[id]/edit : EditIdeaPage, EditIdeaForm                        *)
(***************************************************************************)
\* the responses a write of this part of the model ends in
WriteResponses == {Ok, Rejected} \cup {r \in ErrorResponses : r.status = 500}

\* the number of browsers that show the edit form at the same time
MaxOpenForms == 1

\* the page for idea id is requested by a user: 404, redirect to the detail
\* page, or the form with the status the idea has at this moment
EditIdeaPage(actor, id, response) ==
    /\ (isDataverseConfigured(CookieOf(actor)) /\ response = Ok) => id \in RowIds
    /\ \E found \in {fetchIdeaById(CookieOf(actor), id, response)} :
       \E outcome \in { IF found = <<>> THEN "notFound"
                        ELSE IF ~isIdeaOwner(found[1].submittedBy) THEN "redirect"
                        ELSE "form" } :
          /\ call' = [NoCall EXCEPT
                !.fn = "EditIdeaPage",
                !.cookie = CookieOf(actor),
                !.input = [actor |-> actor, id |-> id],
                !.requests = IF isDataverseConfigured(CookieOf(actor))
                             THEN <<Request("GET", IdeaUrl(id), NoBody)>> ELSE <<>>,
                !.responses = IF isDataverseConfigured(CookieOf(actor))
                              THEN <<response>> ELSE <<>>,
                !.returned = outcome,
                !.ideas = found]
          /\ forms' = [forms EXCEPT ![actor] =
                IF outcome = "form"
                THEN [ open |-> TRUE, ideaId |-> id, currentStatus |-> Str(found[1].status),
                       submitError |-> "", submitSuccess |-> FALSE ]
                ELSE NoForm]
    /\ UNCHANGED <<env, table, mapVars, viewVars, authVars>>

\* the server action is invoked (by the form, or by any other client that can
\* reach it) and its requests are carried out
UpdateIdea(actor, id, data, currentStatus, response, lost) ==
    /\ \E out \in {updateIdea(CookieOf(actor), id, data, currentStatus, response)} :
          /\ Answered(out, id)
          /\ out.requests = <<>> => response = Ok
          /\ lost => (out.requests # <<>> /\ response = Rejected)
          /\ table' = Patched(out.requests, out.responses, lost)
          /\ call' = [NoCall EXCEPT
                !.fn = "updateIdea",
                !.cookie = CookieOf(actor),
                !.input = [actor |-> actor, id |-> id, data |-> data,
                           currentStatus |-> currentStatus],
                !.requests = out.requests,
                !.responses = out.responses,
                !.returned = "result",
                !.result = out.result]

\* mutant: the form passes the status the idea has when it is saved
OnSubmit_RereadsStatus(actor, data, response, lost) ==
    /\ forms[actor].open
    /\ forms[actor].ideaId \in RowIds
    /\ ~forms[actor].submitSuccess
    /\ editIdeaSchema(data) = <<>>
    /\ UpdateIdea(actor, forms[actor].ideaId, data,
                  Str(mapStatusValue(RowOf(forms[actor].ideaId).status)), response, lost)
    /\ forms' = [forms EXCEPT ![actor] =
          IF call'.result.success
          THEN [@ EXCEPT !.submitError = "", !.submitSuccess = TRUE]
          ELSE [@ EXCEPT !.submitError =
                   IF call'.result.error # "" THEN call'.result.error
                   ELSE "Ein unbekannter Fehler ist aufgetreten."]]
    /\ UNCHANGED <<env, mapVars, viewVars, authVars>>

\* EditIdeaForm.onSubmit: handleSubmit runs it only for data the schema accepts
OnSubmit(actor, data, response, lost) ==
    /\ forms[actor].open
    /\ forms[actor].ideaId # ""
    /\ ~forms[actor].submitSuccess
    /\ editIdeaSchema(data) = <<>>
    /\ UpdateIdea(actor, forms[actor].ideaId, data, forms[actor].currentStatus, response, lost)
    /\ forms' = [forms EXCEPT ![actor] =
          IF call'.result.success
          THEN [@ EXCEPT !.submitError = "", !.submitSuccess = TRUE]
          ELSE [@ EXCEPT !.submitError =
                   IF call'.result.error # "" THEN call'.result.error
                   ELSE "Ein unbekannter Fehler ist aufgetreten."]]
    /\ UNCHANGED <<env, mapVars, viewVars, authVars>>

\* what a client other than the form hands over as currentStatus
DirectStatuses == {Undefined, Str("in Überarbeitung"), Str("In Überarbeitung")}

\* the server action called without the form
CallUpdateIdea(actor, id, data, currentStatus, response, lost) ==
    /\ UpdateIdea(actor, id, data, currentStatus, response, lost)
    /\ UNCHANGED <<env, forms, mapVars, viewVars, authVars>>

(***************************************************************************)
(* app/actions/subscribeActions.ts, list revision:                         *)
(* updateSubscribers, subscribeToIdea, unsubscribeFromIdea                 *)
(***************************************************************************)
\* subscribers.join(";")
RECURSIVE JoinSemicolon(_)
JoinSemicolon(names) ==
    IF names = <<>> THEN ""
    ELSE IF Len(names) = 1 THEN names[1]
    ELSE names[1] \o ";" \o JoinSemicolon(Tail(names))

\* names.filter(s => s !== userName)
RECURSIVE Without(_, _)
Without(names, userName) ==
    IF names = <<>> THEN <<>>
    ELSE IF Head(names) = userName THEN Without(Tail(names), userName)
    ELSE <<Head(names)>> \o Without(Tail(names), userName)

Failure(message) == [success |-> FALSE, error |-> message, ideaId |-> ""]
Success == [success |-> TRUE, error |-> "", ideaId |-> ""]

\* `Fehler beim Speichern: ${response.status} ${response.statusText}`
SaveErrorMessage(response) ==
    "Fehler beim Speichern: " \o ToString(response.status) \o " " \o response.message

\* a PATCH with this body by one of the subscribe actions; without DATAVERSE_URL
\* the URL is relative and fetch() throws before anything is sent
\* mutant: a refused PATCH is sent a second time
PatchSubscriber_Retry(cookie, ideaId, body, response) ==
    LET patch == Request("PATCH", IdeaUrl(ideaId), body)
    IN  IF getAccessToken(cookie) = ""
        THEN [requests |-> <<>>, responses |-> <<>>,
              result |-> Failure("Kein Access Token verfügbar")]
        ELSE IF ~env.url
        THEN [requests |-> <<>>, responses |-> <<>>, result |-> Failure("Invalid URL")]
        ELSE IF response = Rejected
        THEN [requests |-> <<patch>>, responses |-> <<response>>,
              result |-> Failure(Rejected.message)]
        ELSE IF ~response.ok
        THEN [requests |-> <<patch, patch>>, responses |-> <<response, response>>,
              result |-> Failure(SaveErrorMessage(response))]
        ELSE [requests |-> <<patch>>, responses |-> <<response>>, result |-> Success]

PatchSubscriber(cookie, ideaId, body, response) ==
    LET patch == Request("PATCH", IdeaUrl(ideaId), body)
    IN  IF getAccessToken(cookie) = ""
        THEN [requests |-> <<>>, responses |-> <<>>,
              result |-> Failure("Kein Access Token verfügbar")]
        ELSE IF ~env.url
        THEN [requests |-> <<>>, responses |-> <<>>, result |-> Failure("Invalid URL")]
        ELSE IF response = Rejected
        THEN [requests |-> <<patch>>, responses |-> <<response>>,
              result |-> Failure(Rejected.message)]
        ELSE IF ~response.ok
        THEN [requests |-> <<patch>>, responses |-> <<response>>,
              result |-> Failure(SaveErrorMessage(response))]
        ELSE [requests |-> <<patch>>, responses |-> <<response>>, result |-> Success]

\* mutant: saving the subscribers also resets the lifecycle status
updateSubscribers_ResetsStatus(cookie, ideaId, subscribers, response) ==
    PatchSubscriber(cookie, ideaId,
                    (SubscriberText :> Str(JoinSemicolon(subscribers))) @@
                    (FIELD_MAP.status :> Num(562520000)),
                    response)

updateSubscribers(cookie, ideaId, subscribers, response) ==
    PatchSubscriber(cookie, ideaId, (SubscriberText :> Str(JoinSemicolon(subscribers))), response)

\* mutant: the name is added to the list the platform holds, not the supplied one
subscribeToIdea_AddsToStored(cookie, ideaId, currentSubscribers, userName, response) ==
    LET stored == RowOf(ideaId).subscriber
    IN  IF stored = userName
        THEN [requests |-> <<>>, responses |-> <<>>, result |-> Success]
        ELSE PatchSubscriber(cookie, ideaId,
                 (SubscriberText :> Str(IF stored = "" THEN userName
                                        ELSE stored \o ";" \o userName)),
                 response)

subscribeToIdea(cookie, ideaId, currentSubscribers, userName, response) ==
    IF \E k \in DOMAIN currentSubscribers : currentSubscribers[k] = userName
    THEN [requests |-> <<>>, responses |-> <<>>, result |-> Success]
    ELSE updateSubscribers(cookie, ideaId, currentSubscribers \o <<userName>>, response)

unsubscribeFromIdea(cookie, ideaId, currentSubscribers, userName, response) ==
    updateSubscribers(cookie, ideaId, Without(currentSubscribers, userName), response)

\* the subscriber lists a detail page hands to the two actions
SubscriberLists == {<<>>, <<"Max Muster">>}

\* a server action of the subscribe button has run
Subscription(fn, actor, ideaId, input, out, lost) ==
    /\ Answered(out, ideaId)
    /\ lost => (out.requests # <<>> /\ out.responses[Len(out.responses)] = Rejected
                    /\ out.requests[Len(out.requests)].method = "PATCH")
    /\ table' = Patched(out.requests, out.responses, lost)
    /\ call' = [NoCall EXCEPT
          !.fn = fn,
          !.cookie = CookieOf(actor),
          !.input = input,
          !.requests = out.requests,
          !.responses = out.responses,
          !.returned = "result",
          !.result = out.result]
    /\ UNCHANGED <<env, forms, mapVars, viewVars, authVars>>

SubscribeToIdea(actor, ideaId, currentSubscribers, response, lost) ==
    /\ \E out \in {subscribeToIdea(CookieOf(actor), ideaId, currentSubscribers, actor, response)} :
          Subscription("subscribeToIdea", actor, ideaId,
                       [actor |-> actor, id |-> ideaId, subscribers |-> currentSubscribers],
                       out, lost)

UnsubscribeFromIdea(actor, ideaId, currentSubscribers, response, lost) ==
    /\ \E out \in {unsubscribeFromIdea(CookieOf(actor), ideaId, currentSubscribers, actor, response)} :
          Subscription("unsubscribeFromIdea", actor, ideaId,
                       [actor |-> actor, id |-> ideaId, subscribers |-> currentSubscribers],
                       out, lost)

(***************************************************************************)
(* app/actions/subscribeActions.ts, lookup revision:                       *)
(* getMitarbeiterIdFromAzureId, setSubscriber, subscribeToIdea,            *)
(* unsubscribeFromIdea                                                     *)
(***************************************************************************)
\* systemusers: Azure AD object id -> systemuserid
SystemUsers == ("aad-anna" :> "emp-anna")
AzureAdObjectIds == {"aad-anna", "aad-unknown"}

SystemUsersUrl(azureAdObjectId) ==
    "systemusers?$select=systemuserid&$filter=azureactivedirectoryobjectid eq '"
        \o azureAdObjectId \o "'"

\* the employee id found ("" for null), the error, and the two lookups
getMitarbeiterIdFromAzureId(cookie, azureAdObjectId, systemUserResponse, mitarbeiterResponse) ==
    LET first == Request("GET", SystemUsersUrl(azureAdObjectId), NoBody)
        systemUserId == SystemUsers[azureAdObjectId]
        second == Request("GET", EMPLOYEE_TABLE_NAME \o "(" \o systemUserId \o ")", NoBody)
    IN  IF getAccessToken(cookie) = ""
        THEN [mitarbeiterId |-> "", error |-> "Kein Access Token",
              requests |-> <<>>, responses |-> <<>>]
        ELSE IF ~env.url
        THEN [mitarbeiterId |-> "", error |-> "Technischer Fehler beim Lookup",
              requests |-> <<>>, responses |-> <<>>]
        ELSE IF systemUserResponse = Rejected
        THEN [mitarbeiterId |-> "", error |-> "Technischer Fehler beim Lookup",
              requests |-> <<first>>, responses |-> <<systemUserResponse>>]
        ELSE IF ~systemUserResponse.ok
        THEN [mitarbeiterId |-> "", error |-> "SystemUser nicht gefunden",
              requests |-> <<first>>, responses |-> <<systemUserResponse>>]
        ELSE IF azureAdObjectId \notin DOMAIN SystemUsers
        THEN [mitarbeiterId |-> "", error |-> "Du bist nicht in Dataverse authentifiziert",
              requests |-> <<first>>, responses |-> <<systemUserResponse>>]
        ELSE IF mitarbeiterResponse = Rejected
        THEN [mitarbeiterId |-> "", error |-> "Technischer Fehler beim Lookup",
              requests |-> <<first, second>>,
              responses |-> <<systemUserResponse, mitarbeiterResponse>>]
        ELSE IF ~mitarbeiterResponse.ok
        THEN [mitarbeiterId |-> "",
              error |-> "Du musst zuerst als Mitarbeiter in Dataverse angelegt werden. Bitte kontaktiere einen Administrator.",
              requests |-> <<first, second>>,
              responses |-> <<systemUserResponse, mitarbeiterResponse>>]
        ELSE [mitarbeiterId |-> systemUserId, error |-> "",
              requests |-> <<first, second>>,
              responses |-> <<systemUserResponse, mitarbeiterResponse>>]

\* userId "" stands for null
setSubscriber(cookie, ideaId, userId, response) ==
    PatchSubscriber(cookie, ideaId,
                    (SubscriberBind :> (IF userId # "" THEN BindTo(userId) ELSE Null)),
                    response)

subscribeToIdeaLookup(cookie, ideaId, azureAdObjectId, systemUserResponse, mitarbeiterResponse, response) ==
    LET found == getMitarbeiterIdFromAzureId(cookie, azureAdObjectId,
                                             systemUserResponse, mitarbeiterResponse)
        set == setSubscriber(cookie, ideaId, found.mitarbeiterId, response)
    IN  IF found.mitarbeiterId = ""
        THEN [requests |-> found.requests, responses |-> found.responses,
              result |-> Failure(found.error)]
        ELSE [requests |-> found.requests \o set.requests,
              responses |-> found.responses \o set.responses,
              result |-> set.result]

unsubscribeFromIdeaLookup(cookie, ideaId, response) == setSubscriber(cookie, ideaId, "", response)

SubscribeToIdeaLookup(actor, ideaId, azureAdObjectId, systemUserResponse, mitarbeiterResponse, response, lost) ==
    /\ \E out \in {subscribeToIdeaLookup(CookieOf(actor), ideaId, azureAdObjectId,
                                         systemUserResponse, mitarbeiterResponse, response)} :
          /\ Len(out.requests) < 3 => response = Ok
          /\ Len(out.requests) < 2 => mitarbeiterResponse = Ok
          /\ Subscription("subscribeToIdea", actor, ideaId,
                          [actor |-> actor, id |-> ideaId, azureAdObjectId |-> azureAdObjectId],
                          out, lost)

UnsubscribeFromIdeaLookup(actor, ideaId, response, lost) ==
    /\ \E out \in {unsubscribeFromIdeaLookup(CookieOf(actor), ideaId, response)} :
          Subscription("unsubscribeFromIdea", actor, ideaId,
                       [actor |-> actor, id |-> ideaId], out, lost)

(***************************************************************************)
(* app/actions/subscribeActions.ts, e-mail revision: subscribeToIdea;      *)
(* components/SubscribeButton.tsx as the detail page renders it            *)
(***************************************************************************)
IdeengeberMessage ==
    "Abonnieren nicht notwendig. Als Ideengeber bist du automatisch für Updates abonniert."

\* ideengeberId "" stands for undefined
subscribeToIdeaByEmail(cookie, ideaId, ideengeberId, employeeResponse, response) ==
    LET currentUser == getCurrentUserAsync(cookie)
        mitarbeiterId == findEmployeeByEmail(cookie, currentUser.email, employeeResponse)
        lookup == IF isDataverseConfigured(cookie)
                  THEN [requests |-> <<Request("GET", EmployeeUrl(currentUser.email), NoBody)>>,
                        responses |-> <<employeeResponse>>]
                  ELSE [requests |-> <<>>, responses |-> <<>>]
        set == setSubscriber(cookie, ideaId, mitarbeiterId, response)
    IN  IF mitarbeiterId = ""
        THEN [requests |-> lookup.requests, responses |-> lookup.responses,
              result |-> Failure("Kein Mitarbeiter gefunden für E-Mail: " \o currentUser.email
                                   \o ". Bitte kontaktiere einen Administrator.")]
        ELSE IF ideengeberId # "" /\ mitarbeiterId = ideengeberId
        THEN [requests |-> lookup.requests, responses |-> lookup.responses,
              result |-> [success |-> FALSE, error |-> IdeengeberMessage, ideaId |-> "",
                          isIdeengeber |-> TRUE]]
        ELSE [requests |-> lookup.requests \o set.requests,
              responses |-> lookup.responses \o set.responses,
              result |-> set.result]

\* the props IdeaDetailPage gives to <SubscribeButton>: ideaId, subscriber,
\* subscriberId and submittedBy; ideengeberId and ideengeberName stay undefined
SubscribeButtonProps(ideaId) ==
    [ideaId |-> ideaId, ideengeberId |-> "", ideengeberName |-> ""]

\* the server action called with arguments of the caller's choosing
CallSubscribeToIdea(actor, ideaId, ideengeberId, employeeResponse, response, lost) ==
    /\ \E out \in {subscribeToIdeaByEmail(CookieOf(actor), ideaId, ideengeberId,
                                          employeeResponse, response)} :
          /\ Len(out.requests) < 2 => response = Ok
          /\ Len(out.requests) < 1 => employeeResponse = Ok
          /\ Subscription("subscribeToIdea", actor, ideaId,
                          [actor |-> actor, id |-> ideaId, ideengeberId |-> ideengeberId],
                          out, lost)

\* handleToggleSubscribe of a user who is not shown as subscribed: the button
\* refuses only when user.name === ideengeberName, and hands its ideengeberId on
ClickSubscribe(actor, ideaId, employeeResponse, response, lost) ==
    LET props == SubscribeButtonProps(ideaId)
        isIdeengeber == props.ideengeberName # "" /\ actor = props.ideengeberName
    IN  /\ ~isIdeengeber
        /\ CallSubscribeToIdea(actor, props.ideaId, props.ideengeberId,
                               employeeResponse, response, lost)

(***************************************************************************)
(* lib/jwt.ts : decodeJwtPayload, extractUserFromToken, isTokenExpired     *)
(***************************************************************************)
\* how many minutes the clock of a run advances
MaxMinutes == 3

\* token.split(".").length
RECURSIVE Parts(_)
Parts(token) ==
    IF IndexFrom(token, ".", 1) = 0 THEN 1
    ELSE 1 + Parts(SubSeq(token, IndexFrom(token, ".", 1) + 1, Len(token)))

NoClaims == [decoded |-> FALSE, oid |-> Undefined, name |-> Undefined,
             preferred_username |-> Undefined, upn |-> Undefined,
             email |-> Undefined, exp |-> Undefined]

\* the tokens a client can hand in, by what their middle part decodes to
Tokens ==
    { "kein-jwt", "kein.json.jwt", "jwt.ohne.oid", "jwt.ohne.exp", "jwt.exp.119",
      "jwt.exp.120", "jwt.exp.text", "jwt.exp.ziffern" }

\* decodeJwtPayload of lib/jwt.ts: null unless the token has three parts and the
\* middle part is JSON
jwtDecodeJwtPayload(token) ==
    LET claims == [NoClaims EXCEPT !.decoded = TRUE,
                                   !.oid = Str("aad-anna"),
                                   !.name = Str("Anna Beispiel"),
                                   !.preferred_username = Str("anna@example.com")]
    IN  IF Parts(token) # 3 THEN NoClaims
        ELSE CASE token = "jwt.ohne.oid" -> [claims EXCEPT !.oid = Undefined, !.exp = Num(120)]
               [] token = "jwt.ohne.exp" -> claims
               [] token = "jwt.exp.119" -> [claims EXCEPT !.exp = Num(119)]
               [] token = "jwt.exp.120" -> [claims EXCEPT !.exp = Num(120), !.name = Undefined]
               [] token = "jwt.exp.text" -> [claims EXCEPT !.exp = Str("never")]
               [] token = "jwt.exp.ziffern" -> [claims EXCEPT !.exp = Str("120")]
               [] OTHER -> NoClaims

\* a TokenUser, or null
NoTokenUser == [found |-> FALSE, id |-> Null, name |-> Null, email |-> Null, expiresAt |-> Null]

\* extractUserFromToken of lib/jwt.ts
jwtExtractUserFromToken(token) ==
    LET payload == jwtDecodeJwtPayload(token)
        email == JsOr(JsOr(payload.preferred_username, payload.upn), payload.email)
    IN  IF ~payload.decoded THEN NoTokenUser
        ELSE IF ~Truthy(payload.oid) THEN NoTokenUser
        ELSE [ found |-> TRUE,
               id |-> payload.oid,
               name |-> JsOr(JsOr(payload.name, email), Str("Unbekannter User")),
               email |-> JsOr(email, Str("")),
               expiresAt |-> JsOr(payload.exp, Num(0)) ]

\* extractUserFromToken over the tokens of the model, computed once
TokenUsers == [token \in Tokens \cup {""} |-> jwtExtractUserFromToken(token)]

\* Number(s) of a string of decimal digits
RECURSIVE DigitsToNumber(_)
DigitsToNumber(s) ==
    IF s = "" THEN 0
    ELSE 10 * DigitsToNumber(SubSeq(s, 1, Len(s) - 1))
         + (CHOOSE d \in 0 .. 9 : ToString(d) = SubSeq(s, Len(s), Len(s)))

IsDigits(s) ==
    \A i \in 1 .. Len(s) : \E d \in 0 .. 9 : ToString(d) = SubSeq(s, i, i)

\* a < n of JavaScript for a number n: a is converted to a number, and the
\* comparison with NaN is false
JsLessThan(a, n) ==
    CASE a.t = "number" -> a.n < n
      [] a.t = "string" -> IsDigits(a.s) /\ DigitsToNumber(a.s) < n
      [] a.t = "boolean" -> a.n < n
      [] a.t = "null" -> 0 < n
      [] OTHER -> FALSE

\* mutant: no buffer, the token counts as valid until the second it expires
isTokenExpired_NoBuffer(token) ==
    LET user == TokenUsers[token]
    IN  IF ~user.found \/ ~Truthy(user.expiresAt) THEN TRUE
        ELSE JsLessThan(user.expiresAt, now)

\* isTokenExpired: Math.floor(Date.now() / 1000) is `now`
isTokenExpired(token) ==
    LET user == TokenUsers[token]
    IN  IF ~user.found \/ ~Truthy(user.expiresAt) THEN TRUE
        ELSE JsLessThan(user.expiresAt, now + 60)

(***************************************************************************)
(* app/api/auth/token/route.ts : POST, DELETE, GET                         *)
(***************************************************************************)
NoAuthUser == [id |-> Null, name |-> Null, email |-> Null]

\* a response of the route: its status, its JSON body and its Set-Cookie
\* (Undefined: none; Str(""): the cookie is deleted); with it the token the
\* request carried and the time it was handled
NoReply ==
    [ method |-> "", status |-> 0, error |-> "", success |-> FALSE,
      authenticated |-> FALSE, reason |-> "", user |-> NoAuthUser, cookie |-> Undefined,
      token |-> Undefined, at |-> 0 ]

UserOf(token) ==
    [ id |-> jwtExtractUserFromToken(token).id,
      name |-> jwtExtractUserFromToken(token).name,
      email |-> jwtExtractUserFromToken(token).email ]

\* the bodies a client can post: something that is not a JSON object, or an
\* object whose token property is absent, a number, or a string
PostBodies ==
    {[json |-> FALSE, token |-> Undefined]} \cup
    {[json |-> TRUE, token |-> v] : v \in {Undefined, Num(5), Str("")} \cup {Str(t) : t \in Tokens}}

POST(body) ==
    LET bad(message) == [NoReply EXCEPT !.method = "POST", !.status = 400, !.at = now,
                                        !.error = message, !.token = body.token]
    IN  IF ~body.json
        THEN [NoReply EXCEPT !.method = "POST", !.status = 500, !.at = now,
                             !.error = "Interner Serverfehler"]
        ELSE IF ~Truthy(body.token) \/ body.token.t # "string"
        THEN bad("Token fehlt oder ist ungültig")
        ELSE IF ~jwtExtractUserFromToken(body.token.s).found
        THEN bad("Token konnte nicht dekodiert werden. Bitte prüfe das Format.")
        ELSE IF isTokenExpired(body.token.s)
        THEN bad("Token ist abgelaufen. Bitte hole einen neuen Token.")
        ELSE [NoReply EXCEPT !.method = "POST", !.status = 200, !.success = TRUE, !.at = now,
                             !.user = UserOf(body.token.s), !.cookie = body.token,
                             !.token = body.token]

DELETE ==
    [NoReply EXCEPT !.method = "DELETE", !.status = 200, !.success = TRUE, !.at = now,
                    !.cookie = Str("")]

\* cookie: the value of the dataverse_token cookie of the request, "" without one
GET(cookie) ==
    LET answer == [NoReply EXCEPT !.method = "GET", !.status = 200, !.at = now,
                                  !.token = Str(cookie)]
    IN  IF cookie = "" THEN answer
        ELSE IF ~jwtExtractUserFromToken(cookie).found THEN answer
        ELSE IF isTokenExpired(cookie) THEN [answer EXCEPT !.reason = "expired"]
        ELSE [answer EXCEPT !.authenticated = TRUE, !.user = UserOf(cookie)]

(***************************************************************************)
(* components/AuthProvider.tsx                                             *)
(***************************************************************************)
\* the browser before the page is loaded
NoSession ==
    [ cookie |-> "",          \* the dataverse_token cookie
      stored |-> "",          \* localStorage.getItem("dataverse_token"), "" for null
      user |-> NoAuthUser,    \* useState: user
      isLoading |-> TRUE ]    \* useState: isLoading

InitAuthVars ==
    /\ now = 0
    /\ browser = NoSession
    /\ reply = NoReply

\* a minute passes
Tick ==
    /\ now < 60 * MaxMinutes
    /\ now' = now + 60
    /\ UNCHANGED <<browser, reply, mapVars, viewVars, dataVars>>

\* a client posts a body to the route; the browser keeps the cookie of the answer
PostToken(body) ==
    /\ reply' = POST(body)
    /\ browser' = IF reply'.cookie # Undefined
                  THEN [browser EXCEPT !.cookie = reply'.cookie.s] ELSE browser
    /\ UNCHANGED <<now, mapVars, viewVars, dataVars>>

\* checkAuthStatus, run when the provider is mounted
CheckAuthStatus(delivered) ==
    /\ reply' = IF delivered THEN GET(browser.cookie) ELSE NoReply
    /\ browser' =
          IF ~delivered THEN [browser EXCEPT !.user = NoAuthUser, !.isLoading = FALSE]
          ELSE IF reply'.authenticated /\ reply'.user # NoAuthUser
          THEN [browser EXCEPT !.user = reply'.user, !.isLoading = FALSE]
          ELSE [browser EXCEPT !.user = NoAuthUser, !.isLoading = FALSE,
                               !.stored = IF reply'.reason = "expired" THEN "" ELSE @]
    /\ UNCHANGED <<now, mapVars, viewVars, dataVars>>

\* setToken(token): the token is checked locally, posted, and kept on success
SetToken(token, delivered) ==
    /\ ~browser.isLoading
    /\ IF ~jwtExtractUserFromToken(token).found \/ isTokenExpired(token)
       THEN delivered /\ UNCHANGED <<browser, reply>>
       ELSE IF ~delivered
       THEN reply' = NoReply /\ UNCHANGED browser
       ELSE /\ reply' = POST([json |-> TRUE, token |-> Str(token)])
            /\ browser' = IF reply'.status = 200
                          THEN [browser EXCEPT !.cookie = reply'.cookie.s,
                                               !.stored = token,
                                               !.user = reply'.user]
                          ELSE browser
    /\ UNCHANGED <<now, mapVars, viewVars, dataVars>>

\* mutant: the log-out leaves the token in localStorage
clearToken_KeepsStoredToken(delivered) ==
    /\ reply' = IF delivered THEN [DELETE EXCEPT !.token = Str(browser.cookie)] ELSE NoReply
    /\ browser' = IF delivered
                  THEN [browser EXCEPT !.cookie = "", !.user = NoAuthUser]
                  ELSE browser

\* clearToken: when the DELETE is answered the cookie is gone, the stored token
\* is removed and the user is null; when the request fails nothing is changed
clearToken(delivered) ==
    /\ reply' = IF delivered THEN [DELETE EXCEPT !.token = Str(browser.cookie)] ELSE NoReply
    /\ browser' = IF delivered
                  THEN [browser EXCEPT !.cookie = "", !.stored = "", !.user = NoAuthUser]
                  ELSE browser

\* the user logs out
ClearToken(delivered) ==
    /\ ~browser.isLoading
    /\ browser.user # NoAuthUser
    /\ clearToken(delivered)
    /\ UNCHANGED <<now, mapVars, viewVars, dataVars>>

\* the callback of setInterval(..., 60000), which runs while user is not null
IntervalFires(delivered) ==
    /\ browser.user # NoAuthUser
    /\ browser.stored # ""
    /\ IF isTokenExpired(browser.stored)
       THEN clearToken(delivered)
       ELSE delivered /\ UNCHANGED <<browser, reply>>
    /\ UNCHANGED <<now, mapVars, viewVars, dataVars>>

(***************************************************************************)
(* SpecMap: the record mapper applied to records the platform can return.  *)
(***************************************************************************)
\* how many optional properties of one record carry a value at a time
MaxFieldsSet == 2

\* the lookup / option-set properties with a formatted companion:
\* domain field name -> <<formatted property, raw property>>
Companions ==
    [ submittedBy |-> <<FIELD_MAP.submittedByName, FIELD_MAP.submittedBy>>,
      responsiblePerson |-> <<FIELD_MAP.responsiblePersonName, FIELD_MAP.responsiblePerson>>,
      subscriber |-> <<FIELD_MAP.subscriberName, FIELD_MAP.subscriber>>,
      itotBoardMeeting |-> <<FIELD_MAP.itotBoardMeetingName, FIELD_MAP.itotBoardMeeting>>,
      complexity |-> <<FIELD_MAP.complexity \o FormattedValue, FIELD_MAP.complexity>>,
      criticality |-> <<FIELD_MAP.criticality \o FormattedValue, FIELD_MAP.criticality>>,
      priority |-> <<FIELD_MAP.priority \o FormattedValue, FIELD_MAP.priority>> ]

OptionalFields ==
    UNION {{Companions[k][1], Companions[k][2]} : k \in DOMAIN Companions}
        \cup {FIELD_MAP.status, FIELD_MAP.type, FIELD_MAP.detailAnalysisEffort}

\* a formatted companion is a display string (Dataverse omits it for an
\* empty lookup, so it is absent, null or empty at worst)
FormattedValues == {Str("Anna Beispiel"), Str(""), Null}

\* a raw lookup property is a GUID or null
LookupValues == {Str("22222222-2222-2222-2222-222222222222"), Str(""), Null}

\* a raw option-set or number property is a number or null
NumberValues == {Num(562520001), Num(0), Null}

\* values the lifecycle-status property can arrive with
StatusValues ==
    {Num(c) : c \in DOMAIN STATUS_MAP}
        \cup {Str(s) : s \in IdeaStatus}
        \cup {Num(562520009), Num(0), Num(-1), Str("562520000"), Str("Eingereicht"),
              Str(""), Null, Bool(TRUE), Obj}

ValuesOf(f) ==
    IF f = FIELD_MAP.status THEN StatusValues
    ELSE IF f \in {Companions[k][1] : k \in DOMAIN Companions} THEN FormattedValues
    ELSE IF f \in {FIELD_MAP.submittedBy, FIELD_MAP.responsiblePerson,
                   FIELD_MAP.subscriber, FIELD_MAP.itotBoardMeeting} THEN LookupValues
    ELSE IF f = FIELD_MAP.type THEN NumberValues \cup {Str("Projekt")}
    ELSE IF f = FIELD_MAP.detailAnalysisEffort THEN NumberValues \cup {Str("12")}
    ELSE NumberValues

\* a record as Dataverse returns it for a freshly created idea
BaseRecord ==
    [f \in WireFields |->
        IF f = FIELD_MAP.id THEN Str("550e8400-e29b-41d4-a716-446655440001")
        ELSE IF f = FIELD_MAP.title THEN Str("Digitale Zeiterfassung per App")
        ELSE IF f = FIELD_MAP.description THEN Str("Aktuell erfassen wir Arbeitszeiten")
        ELSE IF f = FIELD_MAP.createdOn THEN Str("2024-11-15T09:30:00Z")
        ELSE Undefined]

NoIdea == <<>>

FieldsSet(r) == {f \in OptionalFields : r[f] # Undefined}

InitMap ==
    /\ record = BaseRecord
    /\ idea = NoIdea
    /\ InitViewVars
    /\ InitAuthVars
    /\ InitDataVars

\* the platform (another actor) fills in a property of the record
PlatformSetField(f, v) ==
    /\ record[f] = Undefined
    /\ Cardinality(FieldsSet(record)) < MaxFieldsSet
    /\ record' = [record EXCEPT ![f] = v]
    /\ idea' = NoIdea
    /\ UNCHANGED <<viewVars, dataVars, authVars>>

\* a read maps the record
MapRecord ==
    /\ idea = NoIdea
    /\ idea' = <<mapDataverseToIdea(record)>>
    /\ UNCHANGED <<record, viewVars, dataVars, authVars>>

NextMap ==
    \/ \E f \in OptionalFields : \E v \in ValuesOf(f) : PlatformSetField(f, v)
    \/ MapRecord

SpecMap == InitMap /\ [][NextMap]_vars

(***************************************************************************)
(* Claims settled under SpecMap.                                           *)
(***************************************************************************)
\* the 11 numeric codes and the 11 status strings the claims call known
KnownStatusValue(v) ==
    \/ v.t = "number" /\ v.n \in ((562520000 .. 562520011) \ {562520009})
    \/ v.t = "string" /\ v.s \in IdeaStatus

\* C4: every incoming status value that is neither one of the 11 known
\* numeric codes nor one of the 11 known status strings (unknown number,
\* unknown string, null, undefined, any other type) is mapped to
\* "eingereicht"; the mapper is total on them (it never throws).
C4_UnknownStatusDefaults ==
    idea # NoIdea /\ ~KnownStatusValue(record[FIELD_MAP.status])
        => idea[1].status = "eingereicht"

C4_Witness ==
    /\ idea # NoIdea
    /\ record[FIELD_MAP.status] = Num(562520009)
    /\ idea[1].status = "eingereicht"

\* C9: for every field with a formatted companion, when the formatted and
\* the raw value are both present and non-empty, the mapped value is the
\* formatted value, never the raw id/code.
C9_FormattedPreferred ==
    idea # NoIdea =>
        \A k \in DOMAIN Companions :
            Truthy(record[Companions[k][1]]) /\ Truthy(record[Companions[k][2]])
                => /\ idea[1][k] = record[Companions[k][1]]
                   /\ idea[1][k] # record[Companions[k][2]]

C9_Witness ==
    /\ idea # NoIdea
    /\ record[FIELD_MAP.complexity \o FormattedValue] = Str("Anna Beispiel")
    /\ record[FIELD_MAP.complexity] = Num(562520001)
    /\ idea[1].complexity = Str("Anna Beispiel")

\* fields whose mapper line has a raw fallback, and fields mapped from the
\* formatted companion alone
WithRawFallback == {"submittedBy", "complexity", "criticality", "priority"}
DisplayOnly == {"responsiblePerson", "subscriber", "itotBoardMeeting"}

\* C10 as claimed: for every lookup field with a formatted companion, a
\* missing formatted value with a present raw value maps to the raw value;
\* with neither, the submitter is the placeholder.
C10_AsClaimed ==
    idea # NoIdea =>
        /\ \A k \in DOMAIN Companions :
               ~Truthy(record[Companions[k][1]]) /\ Truthy(record[Companions[k][2]])
                   => idea[1][k] = record[Companions[k][2]]
        /\ Truthy(idea[1].submittedBy)

\* C10 (amended): the raw fallback exists for submitter, complexity,
\* criticality and priority only; responsible person, subscriber and ITOT
\* board meeting are mapped from the formatted companion alone (the raw id is
\* carried in subscriberId / itotBoardMeetingId); with neither value the
\* submitter is "Unbekannt", so submittedBy is never undefined or empty.
C10_FallbackChain ==
    idea # NoIdea =>
        /\ \A k \in WithRawFallback :
               ~Truthy(record[Companions[k][1]]) /\ Truthy(record[Companions[k][2]])
                   => idea[1][k] = record[Companions[k][2]]
        /\ \A k \in DisplayOnly : idea[1][k] = record[Companions[k][1]]
        /\ idea[1].subscriberId = record[FIELD_MAP.subscriber]
        /\ idea[1].itotBoardMeetingId = record[FIELD_MAP.itotBoardMeeting]
        /\ ~Truthy(record[FIELD_MAP.submittedByName]) /\ ~Truthy(record[FIELD_MAP.submittedBy])
               => idea[1].submittedBy = Str("Unbekannt")
        /\ Truthy(idea[1].submittedBy)

C10_Witness ==
    /\ idea # NoIdea
    /\ record[FIELD_MAP.submittedByName] = Undefined
    /\ record[FIELD_MAP.submittedBy] = Str("22222222-2222-2222-2222-222222222222")
    /\ idea[1].submittedBy = Str("22222222-2222-2222-2222-222222222222")
    /\ record[FIELD_MAP.subscriberName] = Undefined
    /\ record[FIELD_MAP.subscriber] = Str("22222222-2222-2222-2222-222222222222")
    /\ idea[1].subscriber = Undefined

\* C11: the mapped detailAnalysisEffort equals the raw value when that is a
\* number, 0 included; when the raw value is absent, null or not a number the
\* mapped value is undefined, never 0.
C11_EffortUnsetOrNumber ==
    idea # NoIdea =>
        LET raw == record[FIELD_MAP.detailAnalysisEffort]
        IN  IF raw.t = "number"
            THEN idea[1].detailAnalysisEffort = raw
            ELSE /\ idea[1].detailAnalysisEffort = Undefined
                 /\ idea[1].detailAnalysisEffort # Num(0)

\* a record whose effort is the number 0 has been mapped, and the idea has 0
C11_Witness ==
    /\ idea # NoIdea
    /\ record[FIELD_MAP.detailAnalysisEffort] = Num(0)
    /\ idea[1].detailAnalysisEffort = Num(0)

\* the codes of a status: the code has no table from status to code
CodesOf(status) == {c \in DOMAIN STATUS_MAP : STATUS_MAP[c] = status}

\* C19: STATUS_MAP has 11 codes and maps them one-to-one onto the 11 values of
\* ideaStatusValues, so from a code to its status and back gives the code, and
\* from a status to its code and on gives the status; a record whose status is
\* one of the codes is mapped to the status of that code, which has no other
\* code; the code written on reset, 562520000, is mapped to "eingereicht".
C19_StatusMapBijective ==
    /\ Cardinality(DOMAIN STATUS_MAP) = 11
    /\ Len(ideaStatusValues) = 11
    /\ Cardinality({ideaStatusValues[i] : i \in DOMAIN ideaStatusValues}) = 11
    /\ \A c \in DOMAIN STATUS_MAP :
          /\ \E i \in DOMAIN ideaStatusValues : ideaStatusValues[i] = STATUS_MAP[c]
          /\ CodesOf(STATUS_MAP[c]) = {c}
    /\ \A i \in DOMAIN ideaStatusValues :
          /\ Cardinality(CodesOf(ideaStatusValues[i])) = 1
          /\ \A c \in CodesOf(ideaStatusValues[i]) : STATUS_MAP[c] = ideaStatusValues[i]
    /\ UpdateBody("Neue Beschreibung der Idee, Fassung A",
                  Str("in Überarbeitung"))[FIELD_MAP.status] = Num(562520000)
    /\ mapStatusValue(Num(562520000)) = "eingereicht"
    /\ (idea # NoIdea /\ record[FIELD_MAP.status].t = "number"
           /\ record[FIELD_MAP.status].n \in DOMAIN STATUS_MAP)
        => /\ idea[1].status = STATUS_MAP[record[FIELD_MAP.status].n]
           /\ CodesOf(idea[1].status) = {record[FIELD_MAP.status].n}

\* the record with the code listed last, 562520004, has been mapped
C19_Witness ==
    /\ idea # NoIdea
    /\ record[FIELD_MAP.status] = Num(562520004)
    /\ idea[1].status = "abgelehnt"
    /\ CodesOf("abgelehnt") = {562520004}

InitView ==
    /\ InitViewVars
    /\ InitAuthVars
    /\ InitDataVars
    /\ record = BaseRecord
    /\ idea = NoIdea

NextView ==
    \/ \E status \in IdeaStatus : SelectStatus(status)
    \/ \E status \in IdeaStatus : RenderDetailPage(status)

SpecView == InitView /\ [][NextView]_vars

(***************************************************************************)
(* Claims settled under SpecView.                                          *)
(***************************************************************************)
\* C2: for every one of the 11 statuses the editable set of
\* FIELD_CONFIG[status] is empty or exactly {description}.
C2_EditableOnlyDescription ==
    ToSet(config.editable) \in {{}, {"description"}}

\* C3: the statuses whose FIELD_CONFIG editable set is non-empty are exactly
\* "eingereicht" and "in Überarbeitung" (all nine others have none), and the
\* detail page's LIFECYCLE_STATUS_MAP marks the same two as editable.
C3_EditableStatuses ==
    /\ (ToSet(config.editable) # {})
           <=> selectedStatus \in {"eingereicht", "in Überarbeitung"}
    /\ detailStatus # "" =>
           (isEditable <=> detailStatus \in {"eingereicht", "in Überarbeitung"})

C3_Witness ==
    /\ selectedStatus = "in Überarbeitung"
    /\ ToSet(config.editable) = {"description"}
    /\ detailStatus = "in Qualitätsprüfung"
    /\ ~isEditable

\* C20: for every status, each field name in the editable list of
\* FIELD_CONFIG[status] is also in its visible list; so it is for the
\* configuration the admin page shows for the selected status.
C20_EditableWithinVisible ==
    /\ \A status \in IdeaStatus :
          \A i \in DOMAIN FIELD_CONFIG[status].editable :
              Includes(FIELD_CONFIG[status].visible, FIELD_CONFIG[status].editable[i])
    /\ \A i \in DOMAIN config.editable : Includes(config.visible, config.editable[i])

\* the page shows a selected status whose editable field is among the visible ones
C20_Witness ==
    /\ selectedStatus = "in Überarbeitung"
    /\ config = FIELD_CONFIG["in Überarbeitung"]
    /\ config.editable = <<"description">>
    /\ Includes(config.visible, "description")

\* the stages an idea passes on its way to completion, in their order
StageSequence ==
    << "eingereicht", "in Qualitätsprüfung", "in Detailanalyse", "ITOT-Board vorgestellt",
       "Projektportfolio aufgenommen", "Quartalsplanung aufgenommen",
       "Wochenplanung aufgenommen", "in Umsetzung", "abgeschlossen" >>

\* C21: along the stage sequence the visible list of FIELD_CONFIG never loses a
\* field: the list of each status holds every field of the list of every earlier
\* status, in the table and in the configuration the admin page shows.
C21_VisibleGrowsAlongStages ==
    \A j \in DOMAIN StageSequence : \A i \in 1 .. j :
        /\ ToSet(StatusConfig(StageSequence[i]).visible)
               \subseteq ToSet(StatusConfig(StageSequence[j]).visible)
        /\ selectedStatus = StageSequence[j] =>
               ToSet(FIELD_CONFIG[StageSequence[i]].visible) \subseteq ToSet(config.visible)

\* the page shows the last stage, whose list holds all fields of the first stage
\* and the planning fields that came later
C21_Witness ==
    /\ selectedStatus = "abgeschlossen"
    /\ ToSet(FIELD_CONFIG["eingereicht"].visible) \subseteq ToSet(config.visible)
    /\ Includes(config.visible, "plannedEnd")
    /\ ~Includes(FIELD_CONFIG["eingereicht"].visible, "plannedEnd")

(***************************************************************************)
(* SpecIdeas: reading and creating ideas                                   *)
(***************************************************************************)
InitIdeas ==
    /\ env \in { DefaultEnv,
                  [DefaultEnv EXCEPT !.url = FALSE],
                  [DefaultEnv EXCEPT !.token = FALSE],
                  [DefaultEnv EXCEPT !.userEmail = "anna@example.com"] }
    /\ table = InitialTable
    /\ call = NoCall
    /\ forms = [a \in Actors |-> NoForm]
    /\ record = BaseRecord
    /\ idea = NoIdea
    /\ InitViewVars
    /\ InitAuthVars

\* a response is drawn for the requests a call sends, a header for an answered POST
Sends(cookie, data) == isDataverseConfigured(cookie) /\ createIdeaSchema(data) = <<>>

NextIdeas ==
    \/ /\ call = NoCall
       /\ \E cookie \in Cookies :
          \E ideasResponse \in (IF isDataverseConfigured(cookie) THEN Responses ELSE {Ok}),
             bpfResponse \in (IF isDataverseConfigured(cookie) THEN Responses ELSE {Ok}) :
             FetchAllIdeas(cookie, ideasResponse, bpfResponse)
    \/ /\ call = NoCall
       /\ \E cookie \in Cookies, id \in AskedIds :
          \E response \in (IF isDataverseConfigured(cookie) THEN Responses ELSE {Ok}) :
             FetchIdeaById(cookie, id, response)
    \/ /\ call = NoCall
       /\ \E cookie \in Cookies, data \in CreateInputs, uuid \in UUIDs :
          \E employeeResponse \in (IF Sends(cookie, data) THEN Responses ELSE {Ok}),
             postResponse \in (IF Sends(cookie, data) THEN Responses ELSE {Ok}) :
             \E locationHeader \in
                    (IF Sends(cookie, data) /\ postResponse.ok THEN LocationHeaders ELSE {Null}),
                lost \in (IF Sends(cookie, data) /\ postResponse = Rejected
                          THEN BOOLEAN ELSE {FALSE}) :
                SubmitIdea(cookie, data, employeeResponse, postResponse, locationHeader,
                           uuid, lost)
    \/ \E i \in DOMAIN table, v \in PlatformStatusValues : PlatformSetStatus(i, v)
    \/ Delivered

SpecIdeas == InitIdeas /\ [][NextIdeas]_vars

\* C5: every Idea returned by fetchAllIdeas, fetchIdeaById or createIdea (mapped
\* from a platform record, taken from the sample dataset, or built locally after
\* creation) has a status that is one of the 11 values of ideaStatusValues.
C5_ReturnedStatusInDomain ==
    \A i \in DOMAIN call.ideas :
        \E k \in DOMAIN ideaStatusValues : call.ideas[i].status = ideaStatusValues[k]

\* fetchAllIdeas has returned the platform's ideas, one of them mapped from a row
\* whose lifecycle status is a code outside STATUS_MAP
C5_Witness ==
    /\ call.fn = "fetchAllIdeas"
    /\ call.requests # <<>>
    /\ call.responses[1].ok
    /\ Len(call.ideas) = Len(table)
    /\ \E i \in DOMAIN table :
          /\ table[i].status = Num(562520009)
          /\ call.ideas[i].id = Str(table[i].id)
          /\ call.ideas[i].status = "eingereicht"

\* the answer to the POST of the last call, when it sent one
PostAnswered ==
    /\ call.requests # <<>>
    /\ call.requests[Len(call.requests)].method = "POST"
    /\ call.responses[Len(call.responses)].ok

\* C8: for every input that passes createIdeaSchema, in unconfigured mode and
\* whenever the POST is answered OK in configured mode, createIdea returns one
\* Idea with status 'eingereicht', type 'Idee', the title and description of the
\* input and a non-empty id: the id in the parentheses of the OData-EntityId
\* header when the header is present and has one (for the platform's own header,
\* the id of the row just created), otherwise the generated UUID.
C8_CreatedIdea ==
    ( /\ call.fn = "submitIdea"
      /\ createIdeaSchema(call.input) = <<>>
      /\ ~isDataverseConfigured(call.cookie) \/ PostAnswered )
    => /\ Len(call.ideas) = 1
       /\ call.ideas[1].status = "eingereicht"
       /\ call.ideas[1].type = Str("Idee")
       /\ call.ideas[1].title = Str(call.input.title)
       /\ call.ideas[1].description = Str(call.input.description)
       /\ call.ideas[1].id.t = "string"
       /\ call.ideas[1].id.s # ""
       /\ call.result = [success |-> TRUE, error |-> "", ideaId |-> call.ideas[1].id.s]
       /\ ~isDataverseConfigured(call.cookie) =>
             /\ call.requests = <<>>
             /\ call.uuid \in UUIDs
             /\ call.ideas[1].id.s = call.uuid
       /\ (PostAnswered /\ call.header = Str(<<EntitySetUrl, "(", table[1].id, ")">>)) =>
             call.ideas[1].id.s = table[1].id
       /\ (PostAnswered /\ call.header \in {Null, Str(<<EntitySetUrl>>),
                                           Str(<<EntitySetUrl, "(", ")">>)}) =>
             /\ call.uuid \in UUIDs
             /\ call.ideas[1].id.s = call.uuid

\* the scenario of the specification: "Digitale Zeiterfassung" with a description
\* of 25 characters is submitted, Dataverse stores it and names the new row in
\* its header, and the idea returned carries that id
C8_Witness ==
    /\ call.fn = "submitIdea"
    /\ call.input = [title |-> "Digitale Zeiterfassung",
                     description |-> "Zeiterfassung per App neu"]
    /\ Len(call.input.description) = 25
    /\ PostAnswered
    /\ call.header = Str(<<EntitySetUrl, "(", table[1].id, ")">>)
    /\ table[1].title = "Digitale Zeiterfassung"
    /\ Len(call.ideas) = 1
    /\ call.ideas[1].id = Str(table[1].id)
    /\ call.ideas[1].status = "eingereicht"
    /\ call.result.success

(***************************************************************************)
(* Spec: an existing idea is edited and subscribed to while the workflow   *)
(* moves it through its statuses                                           *)
(***************************************************************************)
\* the statuses the workflow gives the idea here: eingereicht, in
\* Überarbeitung, abgelehnt
WorkflowStatusValues == {Num(562520000), Num(562520002), Num(562520004)}

\* the ids an edit page is requested for: the row, a sample idea, an unknown id
PageIds == RowIds \cup {"550e8400-e29b-41d4-a716-446655440002", "no-such-id"}

Init ==
    /\ env \in { DefaultEnv,
                  [DefaultEnv EXCEPT !.ownerCheck = "mockUser", !.mockUserName = "max muster"],
                  [DefaultEnv EXCEPT !.ownerCheck = "mockUser"],
                  [DefaultEnv EXCEPT !.url = FALSE] }
    /\ table = InitialTable
    /\ call = NoCall
    /\ forms = [a \in Actors |-> NoForm]
    /\ record = BaseRecord
    /\ idea = NoIdea
    /\ InitViewVars
    /\ InitAuthVars

\* the responses drawn for a request that is sent, and whether a PATCH whose
\* answer was lost had reached Dataverse
Drawn(sent) == IF sent THEN WriteResponses ELSE {Ok}
Lost(response) == IF response = Rejected THEN BOOLEAN ELSE {FALSE}

Next ==
    \/ /\ call = NoCall
       /\ \E actor \in Actors, id \in PageIds :
          \E response \in Drawn(isDataverseConfigured(CookieOf(actor))) :
             /\ Cardinality({a \in Actors \ {actor} : forms[a].open}) < MaxOpenForms
             /\ EditIdeaPage(actor, id, response)
    \/ /\ call = NoCall
       /\ \E actor \in Actors, data \in EditInputs :
          \E response \in Drawn(isDataverseConfigured(CookieOf(actor))) :
             \E lost \in Lost(response) : OnSubmit(actor, data, response, lost)
    \/ /\ call = NoCall
       /\ \E actor \in Actors, id \in RowIds, data \in EditInputs, currentStatus \in DirectStatuses :
          \E response \in Drawn(isDataverseConfigured(CookieOf(actor))) :
             \E lost \in Lost(response) :
                CallUpdateIdea(actor, id, data, currentStatus, response, lost)
    \/ /\ call = NoCall
       /\ \E actor \in Actors, id \in RowIds, currentSubscribers \in SubscriberLists :
          \E response \in Drawn(env.url) : \E lost \in Lost(response) :
             SubscribeToIdea(actor, id, currentSubscribers, response, lost)
    \/ /\ call = NoCall
       /\ \E actor \in Actors, id \in RowIds, currentSubscribers \in SubscriberLists :
          \E response \in Drawn(env.url) : \E lost \in Lost(response) :
             UnsubscribeFromIdea(actor, id, currentSubscribers, response, lost)
    \/ /\ call = NoCall
       /\ \E actor \in Actors, id \in RowIds, azureAdObjectId \in AzureAdObjectIds :
          \E systemUserResponse \in Drawn(env.url), mitarbeiterResponse \in Drawn(env.url),
             response \in Drawn(env.url) :
             \E lost \in Lost(response) :
                SubscribeToIdeaLookup(actor, id, azureAdObjectId, systemUserResponse,
                                      mitarbeiterResponse, response, lost)
    \/ /\ call = NoCall
       /\ \E actor \in Actors, id \in RowIds :
          \E response \in Drawn(env.url) : \E lost \in Lost(response) :
             UnsubscribeFromIdeaLookup(actor, id, response, lost)
    \/ \E i \in DOMAIN table, v \in WorkflowStatusValues : PlatformSetStatus(i, v)
    \/ Delivered

Spec == Init /\ [][Next]_vars

\* the step is a call of updateIdea that reported success after sending requests
SavedStep ==
    /\ call = NoCall
    /\ call'.fn = "updateIdea"
    /\ call'.result.success
    /\ call'.requests # <<>>

\* C1: a successful description save sends one PATCH; its body sets the
\* lifecycle status to 562520000 ('eingereicht') exactly when the currentStatus
\* passed is 'in Überarbeitung', and the idea's status is then 'eingereicht';
\* for every other currentStatus, an absent one included, the body holds only
\* the description and the idea's status stays what it was.
C1_StatusResetOnSave ==
    [][ SavedStep =>
          LET s == call'.input.currentStatus
              body == call'.requests[1].body
          IN  /\ Len(call'.requests) = 1
              /\ call'.requests[1].method = "PATCH"
              /\ call'.requests[1].target = IdeaUrl(call'.input.id)
              /\ body[FIELD_MAP.description] = Str(call'.input.data.description)
              /\ (FIELD_MAP.status \in DOMAIN body) <=> (s = Str("in Überarbeitung"))
              /\ IF s = Str("in Überarbeitung")
                 THEN /\ body[FIELD_MAP.status] = Num(562520000)
                      /\ \A i \in DOMAIN table :
                            table[i].id = call'.input.id =>
                               table'[i].status = Num(562520000)
                 ELSE /\ DOMAIN body = {FIELD_MAP.description}
                      /\ \A i \in DOMAIN table : table'[i].status = table[i].status
      ]_vars

\* a save through the form of an idea that was in revision when the page was
\* rendered has put it back to 'eingereicht' with the new description
C1_Witness ==
    /\ call.fn = "updateIdea"
    /\ call.result.success
    /\ call.input.currentStatus = Str("in Überarbeitung")
    /\ forms[call.input.actor].submitSuccess
    /\ call.requests[1].body[FIELD_MAP.status] = Num(562520000)
    /\ table[1].status = Num(562520000)
    /\ table[1].description = call.input.data.description

\* the user a request comes from is the one who submitted the idea
IsSubmitter(actor, id) ==
    \E i \in DOMAIN table :
        table[i].id = id /\ SystemUserName[table[i].createdby] = actor

\* C6: the edit page shows the form only to the idea's submitter, and a PATCH
\* with a description reaches Dataverse only when updateIdea is called by the
\* idea's submitter.
C6_OnlySubmitterEdits ==
    /\ (call.fn = "EditIdeaPage" /\ call.returned = "form" /\ call.requests # <<>>) =>
          IsSubmitter(call.input.actor, call.input.id)
    /\ (call.fn = "updateIdea" /\ call.requests # <<>>) =>
          IsSubmitter(call.input.actor, call.input.id)

\* the step is a call of updateIdea that sent a PATCH for a row of the table
PatchSentStep ==
    /\ call = NoCall
    /\ call'.fn = "updateIdea"
    /\ \E k \in DOMAIN call'.requests : call'.requests[k].method = "PATCH"
    /\ call'.input.id \in RowIds

\* C22: a description PATCH is sent only for an idea whose lifecycle status, at
\* the time of the call, is 'eingereicht' or 'in Überarbeitung', whether
\* updateIdea is called by the edit form or by another client.
C22_SavedOnlyWhileEditable ==
    [][ PatchSentStep =>
          mapStatusValue(RowOf(call'.input.id).status)
              \in {"eingereicht", "in Überarbeitung"} ]_vars

\* the step is a save by the edit form: updateIdea was called and the form shows
\* its result
FormSaveStep ==
    /\ call = NoCall
    /\ call'.fn = "updateIdea"
    /\ forms' # forms

\* C23: the edit form passes to updateIdea the status it was rendered with, and
\* the save sends nothing but its one PATCH, so the status is not read again: the
\* PATCH sets the status to 562520000 ('eingereicht') exactly when the status
\* captured at rendering was 'in Überarbeitung', whatever status the idea has in
\* the table when the save is made.
C23_ResetUsesCapturedStatus ==
    [][ FormSaveStep =>
          LET captured == forms[call'.input.actor].currentStatus
          IN  /\ call'.input.currentStatus = captured
              /\ \A k \in DOMAIN call'.requests :
                    /\ call'.requests[k].method = "PATCH"
                    /\ (FIELD_MAP.status \in DOMAIN call'.requests[k].body)
                           <=> captured = Str("in Überarbeitung")
                    /\ (FIELD_MAP.status \in DOMAIN call'.requests[k].body)
                           => call'.requests[k].body[FIELD_MAP.status] = Num(562520000)
              /\ Len(call'.requests) <= 1 ]_vars

\* the form was rendered for an idea in 'eingereicht', the platform then moved
\* the idea to 'in Überarbeitung', and the save left that status in place
C23_Witness ==
    /\ call.fn = "updateIdea"
    /\ call.result.success
    /\ Len(call.requests) = 1
    /\ FIELD_MAP.status \notin DOMAIN call.requests[1].body
    /\ forms[call.input.actor].submitSuccess
    /\ forms[call.input.actor].currentStatus = Str("eingereicht")
    /\ call.input.currentStatus = Str("eingereicht")
    /\ RowOf(call.input.id).status = Num(562520002)
    /\ RowOf(call.input.id).description = call.input.data.description

\* the step is a call of one of the end-user operations
UserStep == call = NoCall /\ call' # NoCall

\* C7 as claimed: no request of a description edit, a subscribe or an
\* unsubscribe changes a field of the idea other than the description.
C7_OnlyDescriptionChanges ==
    [][ UserStep =>
          /\ DOMAIN table' = DOMAIN table
          /\ \A i \in DOMAIN table :
                [table'[i] EXCEPT !.description = table[i].description] = table[i]
      ]_vars

\* C7: a description edit changes the description and, with it, the status
\* only when the currentStatus passed is 'in Überarbeitung' (to 562520000); a
\* subscribe or unsubscribe changes only the subscriber; the edit page changes
\* nothing. Title, type, submitter, idea giver and stage are never changed by
\* a request of this code.
C7_FrameOfUserOperations ==
    [][ UserStep =>
          /\ DOMAIN table' = DOMAIN table
          /\ \A i \in DOMAIN table :
                /\ [table'[i] EXCEPT !.description = table[i].description,
                                     !.status = table[i].status,
                                     !.subscriber = table[i].subscriber] = table[i]
                /\ table'[i].description # table[i].description =>
                      call'.fn = "updateIdea"
                /\ table'[i].status # table[i].status =>
                      /\ call'.fn = "updateIdea"
                      /\ call'.input.currentStatus = Str("in Überarbeitung")
                      /\ table'[i].status = Num(562520000)
                /\ table'[i].subscriber # table[i].subscriber =>
                      call'.fn \in {"subscribeToIdea", "unsubscribeFromIdea"}
      ]_vars

\* after an edit and a subscription the idea has a new description and a
\* subscriber, and the title, type and submitter it was created with
C7_Witness ==
    /\ call.fn \in {"subscribeToIdea", "unsubscribeFromIdea"}
    /\ call.result.success
    /\ table[1].subscriber # ""
    /\ table[1].description # InitialTable[1].description
    /\ table[1].title = InitialTable[1].title
    /\ table[1].type = InitialTable[1].type
    /\ table[1].createdby = InitialTable[1].createdby

\* the last call was a read that Dataverse answered with 401
ReadUnauthorized ==
    /\ call.fn \in {"fetchAllIdeas", "fetchIdeaById"}
    /\ call.requests # <<>>
    /\ call.responses[1].status = 401

UpdateIdeaDescription(cookie, id, description, currentStatus, response, lost) ==
    /\ \E out \in {updateIdeaDescription(cookie, id, description, currentStatus, response)} :
          /\ Answered(out, id)
          /\ lost => (out.requests # <<>> /\ response = Rejected)
          /\ table' = Patched(out.requests, out.responses, lost)
          /\ call' = [NoCall EXCEPT
                !.fn = "updateIdeaDescription",
                !.cookie = cookie,
                !.input = [id |-> id, description |-> description,
                           currentStatus |-> currentStatus],
                !.requests = out.requests,
                !.responses = out.responses,
                !.returned = IF out.thrown THEN "thrown" ELSE "void"]
    /\ UNCHANGED <<env, forms, mapVars, viewVars, authVars>>

\* DATAVERSE_URL is not set, or DATAVERSE_ACCESS_TOKEN is not set (a request
\* then has a token only when it brings the cookie)
InitFallback ==
    /\ env \in { [DefaultEnv EXCEPT !.url = FALSE], [DefaultEnv EXCEPT !.token = FALSE] }
    /\ table = InitialTable
    /\ call = NoCall
    /\ forms = [a \in Actors |-> NoForm]
    /\ record = BaseRecord
    /\ idea = NoIdea
    /\ InitViewVars
    /\ InitAuthVars

NextFallback ==
    \/ /\ call = NoCall
       /\ \E cookie \in Cookies :
          \E ideasResponse \in (IF isDataverseConfigured(cookie) THEN Responses ELSE {Ok}),
             bpfResponse \in (IF isDataverseConfigured(cookie) THEN Responses ELSE {Ok}) :
             FetchAllIdeas(cookie, ideasResponse, bpfResponse)
    \/ /\ call = NoCall
       /\ \E cookie \in Cookies, id \in AskedIds :
          \E response \in (IF isDataverseConfigured(cookie) THEN Responses ELSE {Ok}) :
             FetchIdeaById(cookie, id, response)
    \/ /\ call = NoCall
       /\ \E cookie \in Cookies, data \in CreateInputs, uuid \in UUIDs :
          \E postResponse \in (IF Sends(cookie, data) THEN Responses ELSE {Ok}) :
             \E locationHeader \in
                    (IF Sends(cookie, data) /\ postResponse.ok THEN LocationHeaders ELSE {Null}),
                lost \in (IF Sends(cookie, data) THEN Lost(postResponse) ELSE {FALSE}) :
                SubmitIdea(cookie, data, Ok, postResponse, locationHeader, uuid, lost)
    \/ /\ call = NoCall
       /\ \E cookie \in Cookies, id \in RowIds, data \in EditInputs,
             currentStatus \in DirectStatuses :
          \E response \in Drawn(isDataverseConfigured(cookie)) :
             \E lost \in Lost(response) :
                UpdateIdeaDescription(cookie, id, data.description, currentStatus,
                                      response, lost)
    \/ Delivered

SpecFallback == InitFallback /\ [][NextFallback]_vars

\* the configuration is absent for a request with this cookie: no platform URL,
\* or neither a token cookie nor the token of the environment
ConfigurationAbsent(cookie) == ~env.url \/ (cookie = "" /\ ~env.token)

\* C12: a call of a data function with the configuration absent sends no
\* request, changes nothing in Dataverse and raises no error: fetchAllIdeas
\* returns the sample ideas, fetchIdeaById the sample idea with the id or
\* null, createIdea (for an input submitIdea lets through) an idea built
\* locally from the input and a generated UUID, and updateIdeaDescription
\* returns.
C12_FallbackWithoutConfiguration ==
    [][ (call = NoCall /\ call' # NoCall /\ ConfigurationAbsent(call'.cookie)) =>
          /\ call'.requests = <<>>
          /\ table' = table
          /\ call'.fn = "fetchAllIdeas" =>
                call'.returned = "ideas" /\ call'.ideas = getMockIdeas
          /\ call'.fn = "fetchIdeaById" =>
                /\ call'.ideas = FindMock(call'.input.id)
                /\ call'.returned = IF call'.ideas = <<>> THEN "null" ELSE "idea"
          /\ (call'.fn = "submitIdea" /\ createIdeaSchema(call'.input) = <<>>) =>
                /\ call'.uuid \in UUIDs
                /\ call'.ideas =
                      <<CreatedIdea(call'.uuid, call'.input,
                                    getCurrentUserAsync(call'.cookie).name)>>
                /\ call'.result.success
          /\ call'.fn = "updateIdeaDescription" => call'.returned = "void"
      ]_vars

\* without a platform URL an update of a stored idea has returned, and the
\* idea still has the description it had
C12_Witness ==
    /\ ~env.url
    /\ call.fn = "updateIdeaDescription"
    /\ call.cookie = "token-anna"
    /\ call.returned = "void"
    /\ call.requests = <<>>
    /\ call.input.id = table[1].id
    /\ table[1].description # call.input.description

(***************************************************************************)
(* SpecForms: the two forms, IdeaForm and EditIdeaForm, in the browsers of *)
(* two users, with Dataverse answering their writes or failing them        *)
(***************************************************************************)
\* the number of ideas the users get stored through the form
MaxSubmissions == 2

\* responses that are not OK: an OData error, a JSON body without an error
\* message, and a body that is not JSON (the page of a gateway)
FailedWrites ==
    { [ok |-> FALSE, status |-> 400, message |-> "Bad Request",
       body |-> ODataError("The description is too long.")],
      [ok |-> FALSE, status |-> 500, message |-> "Internal Server Error",
       body |-> [json |-> TRUE, text |-> "{ }", stringified |-> "{}", message |-> ""]],
      [ok |-> FALSE, status |-> 502, message |-> "Bad Gateway",
       body |-> [json |-> FALSE, text |-> "<html>Bad Gateway</html>",
                 stringified |-> "", message |-> ""]] }

\* /ideas/new is opened: the empty IdeaForm
NewIdeaPage(actor) ==
    /\ forms[actor] # [NoForm EXCEPT !.open = TRUE]
    /\ forms' = [forms EXCEPT ![actor] = [NoForm EXCEPT !.open = TRUE]]
    /\ UNCHANGED <<env, table, call, mapVars, viewVars, authVars>>

\* IdeaForm.onSubmit: handleSubmit runs it only for data the schema accepts
IdeaFormOnSubmit(actor, data, postResponse, locationHeader, uuid, lost) ==
    /\ forms[actor].open
    /\ forms[actor].ideaId = ""
    /\ ~forms[actor].submitSuccess
    /\ createIdeaSchema(data) = <<>>
    /\ SubmitIdeaRun(CookieOf(actor), data, Ok, postResponse, locationHeader, uuid,
                     lost, MaxSubmissions)
    /\ forms' = [forms EXCEPT ![actor] =
          IF call'.result.success
          THEN [@ EXCEPT !.submitError = "", !.submitSuccess = TRUE]
          ELSE [@ EXCEPT !.submitError =
                   IF call'.result.error # "" THEN call'.result.error
                   ELSE "Ein unbekannter Fehler ist aufgetreten."]]
    /\ UNCHANGED <<env, mapVars, viewVars, authVars>>

NextForms ==
    \/ /\ call = NoCall
       /\ \E actor \in Actors : NewIdeaPage(actor)
    \/ /\ call = NoCall
       /\ \E actor \in Actors, uuid \in UUIDs,
             data \in { [title |-> "Digitale Zeiterfassung",
                         description |-> "Zeiterfassung per App neu"],
                        [title |-> "Ideen", description |-> "Zwanzig Zeichen lang"] } :
          \E postResponse \in {Ok, Rejected} \cup FailedWrites :
             \E lost \in Lost(postResponse) :
                IdeaFormOnSubmit(actor, data, postResponse,
                                 Str(<<EntitySetUrl, "(", NextRecordId, ")">>), uuid, lost)
    \/ /\ call = NoCall
       /\ \E actor \in Actors : EditIdeaPage(actor, InitialTable[1].id, Ok)
    \/ /\ call = NoCall
       /\ \E actor \in Actors, data \in EditInputs :
          \E response \in {Ok, Rejected} \cup FailedWrites :
             \E lost \in Lost(response) : OnSubmit(actor, data, response, lost)
    \/ Delivered

SpecForms == InitMap /\ [][NextForms]_vars

\* the last call was submitIdea or updateIdea and Dataverse answered its
\* write (POST or PATCH) with a response that is not OK
WriteRefused ==
    /\ call.fn \in {"submitIdea", "updateIdea"}
    /\ call.requests # <<>>
    /\ call.requests[Len(call.requests)].method \in {"POST", "PATCH"}
    /\ call.responses[Len(call.responses)] # Rejected
    /\ ~call.responses[Len(call.responses)].ok

\* sub occurs in s
Contains(s, sub) ==
    \E i \in 1..(Len(s) - Len(sub) + 1) : SubSeq(s, i, i + Len(sub) - 1) = sub

\* the form of the user the last call came from shows the error and not the
\* success message
FormShowsError ==
    \A a \in Actors :
        (CookieOf(a) = call.cookie /\ forms[a].open) =>
            /\ ~forms[a].submitSuccess
            /\ forms[a].submitError = call.result.error

\* C13 as claimed: after a refused write the action returns {success: false,
\* error}, the error contains the HTTP status and the platform's own message
\* (error.message of a JSON body, the text of any other body), and the form
\* is not in its submitted state.
C13_ErrorHasPlatformMessage ==
    WriteRefused =>
        LET response == call.responses[Len(call.responses)]
        IN  /\ call.returned = "result"
            /\ ~call.result.success
            /\ Contains(call.result.error, ToString(response.status))
            /\ Contains(call.result.error,
                        IF response.body.json THEN response.body.message
                        ELSE response.body.text)
            /\ FormShowsError

\* C13 (amended): after a refused write the action returns {success: false,
\* error} and does not throw; error is "Fehler beim Speichern: Dataverse
\* <status>: <details>", where details is error.message of a JSON body, the
\* re-serialised JSON when it has no such message, and "Keine Details
\* verfügbar" for a body that is not JSON; the form shows this error and is
\* not in its submitted state.
C13_WriteRefusedReported ==
    WriteRefused =>
        LET response == call.responses[Len(call.responses)]
            details == IF ~response.body.json THEN "Keine Details verfügbar"
                       ELSE IF response.body.message # "" THEN response.body.message
                       ELSE response.body.stringified
        IN  /\ call.returned = "result"
            /\ call.result =
                  [ success |-> FALSE,
                    error |-> "Fehler beim Speichern: Dataverse "
                                 \o ToString(response.status) \o ": " \o details,
                    ideaId |-> "" ]
            /\ FormShowsError

\* a gateway has answered the PATCH of the edit form with 502 and a page that
\* is not JSON; the form shows the status without the text of that page
C13_Witness ==
    /\ WriteRefused
    /\ call.fn = "updateIdea"
    /\ call.responses[1].status = 502
    /\ forms["Max Muster"].open
    /\ ~forms["Max Muster"].submitSuccess
    /\ forms["Max Muster"].submitError =
          "Fehler beim Speichern: Dataverse 502: Keine Details verfügbar"
    /\ call.cookie = CookieOf("Max Muster")

(***************************************************************************)
(* SpecActions: the server actions that write, called one after another    *)
(* with inputs at and beyond the bounds of the schemas                     *)
(***************************************************************************)
NextActions ==
    \/ /\ call = NoCall
       /\ \E cookie \in Cookies, data \in CreateInputs, uuid \in UUIDs :
          \E employeeResponse \in (IF Sends(cookie, data) THEN {Ok, Rejected} ELSE {Ok}),
             postResponse \in (IF Sends(cookie, data) THEN Responses ELSE {Ok}) :
             \E lost \in (IF Sends(cookie, data) THEN Lost(postResponse) ELSE {FALSE}) :
                SubmitIdea(cookie, data, employeeResponse, postResponse,
                           Str(<<EntitySetUrl, "(", NextRecordId, ")">>), uuid, lost)
    \/ /\ call = NoCall
       /\ \E actor \in Actors, currentStatus \in DirectStatuses,
             data \in { [description |-> "Neunzehn Zeichen lg"],
                        [description |-> "Zwanzig Zeichen lang"],
                        [description |-> Rep("d", 4000)],
                        [description |-> Rep("d", 4001)] } :
          \E response \in Drawn(isDataverseConfigured(CookieOf(actor))
                                   /\ editIdeaSchema(data) = <<>>) :
             \E lost \in Lost(response) :
                CallUpdateIdea(actor, InitialTable[1].id, data, currentStatus, response, lost)
    \/ /\ call = NoCall
       /\ \E actor \in Actors, currentSubscribers \in SubscriberLists :
          \E response \in Drawn(env.url) : \E lost \in Lost(response) :
             SubscribeToIdea(actor, InitialTable[1].id, currentSubscribers, response, lost)
    \/ /\ call = NoCall
       /\ \E actor \in Actors, currentSubscribers \in SubscriberLists :
          \E response \in Drawn(env.url) : \E lost \in Lost(response) :
             UnsubscribeFromIdea(actor, InitialTable[1].id, currentSubscribers, response, lost)
    \/ /\ call = NoCall
       /\ \E actor \in Actors, azureAdObjectId \in AzureAdObjectIds :
          \E systemUserResponse \in Drawn(env.url), mitarbeiterResponse \in Drawn(env.url),
             response \in Drawn(env.url) :
             \E lost \in Lost(response) :
                SubscribeToIdeaLookup(actor, InitialTable[1].id, azureAdObjectId,
                                      systemUserResponse, mitarbeiterResponse, response, lost)
    \/ /\ call = NoCall
       /\ \E actor \in Actors :
          \E response \in Drawn(env.url) : \E lost \in Lost(response) :
             UnsubscribeFromIdeaLookup(actor, InitialTable[1].id, response, lost)
    \/ Delivered

SpecActions == InitIdeas /\ [][NextActions]_vars

\* what the schemas of validators.ts say about the lengths of an input, as one message
LengthMessages(data) ==
    LET title == IF "title" \in DOMAIN data
                 THEN IF Len(data.title) < 5
                      THEN <<"Der Titel muss mindestens 5 Zeichen lang sein.">>
                      ELSE IF Len(data.title) > 200
                      THEN <<"Der Titel darf maximal 200 Zeichen lang sein.">>
                      ELSE <<>>
                 ELSE <<>>
        description == IF Len(data.description) < 20
                       THEN <<"Die Beschreibung muss mindestens 20 Zeichen lang sein.">>
                       ELSE IF Len(data.description) > 4000
                       THEN <<"Die Beschreibung darf maximal 4000 Zeichen lang sein.">>
                       ELSE <<>>
        messages == title \o description
    IN  IF messages = <<>> THEN ""
        ELSE IF Len(messages) = 1 THEN messages[1]
        ELSE messages[1] \o ", " \o messages[2]

ValidatedInput ==
    IF call.fn = "submitIdea" THEN call.input ELSE call.input.data

\* C15: submitIdea and updateIdea refuse a title of fewer than 5 or more than 200
\* characters and a description of fewer than 20 or more than 4000 characters with
\* {success: false, error: the validation messages} and without any request; an
\* input whose lengths lie within the bounds, the bounds 5, 200, 20 and 4000
\* included, passes the validation: the action succeeds or has sent a request.
C15_ValidatedBeforeAnyRequest ==
    call.fn \in {"submitIdea", "updateIdea"} =>
        IF LengthMessages(ValidatedInput) # ""
        THEN /\ call.result.success = FALSE
             /\ call.result.error = LengthMessages(ValidatedInput)
             /\ call.requests = <<>>
        ELSE call.result.success \/ call.requests # <<>>

\* a title of exactly 200 and a description of exactly 20 characters were posted
C15_Witness ==
    /\ call.fn = "submitIdea"
    /\ Len(call.input.title) = 200
    /\ Len(call.input.description) = 20
    /\ call.result.success
    /\ \E i \in DOMAIN call.requests : call.requests[i].method = "POST"

WriteRequests(requests) ==
    {i \in DOMAIN requests : requests[i].method \in {"POST", "PATCH"}}

\* C18: one invocation of submitIdea, updateIdea, subscribeToIdea or
\* unsubscribeFromIdea sends at most one POST or PATCH, whatever the answer to it.
C18_AtMostOneWrite ==
    call.fn \in {"submitIdea", "updateIdea", "subscribeToIdea", "unsubscribeFromIdea"} =>
        Cardinality(WriteRequests(call.requests)) <= 1

\* a PATCH of the subscriber list was refused and the action returned the failure
C18_Witness ==
    /\ call.fn = "subscribeToIdea"
    /\ Cardinality(WriteRequests(call.requests)) = 1
    /\ ~call.responses[Len(call.responses)].ok
    /\ call.responses[Len(call.responses)] # Rejected
    /\ ~call.result.success

(***************************************************************************)
(* SpecForms: two users edit the same idea; a user submits an idea twice   *)
(***************************************************************************)
OtherActor(actor) == CHOOSE a \in Actors : a # actor

\* a PATCH of updateIdea was accepted in this step
PatchAccepted ==
    /\ call = NoCall
    /\ call'.fn = "updateIdea"
    /\ call'.requests # <<>>
    /\ call'.responses[1].ok

\* C16: a PATCH of the description is accepted whatever the row holds and whoever
\* else has loaded or saved the idea: the request carries the description (and
\* the status reset) and nothing to compare a version with, the stored
\* description becomes that of this PATCH, so that of an earlier save is gone,
\* the saving form shows success and the other user's form is left as it was.
C16_LastPatchWins ==
    [][ PatchAccepted =>
          LET in == call'.input
              row == CHOOSE i \in DOMAIN table : table[i].id = in.id
          IN  /\ Len(call'.requests) = 1
              /\ call'.requests[1].method = "PATCH"
              /\ DOMAIN call'.requests[1].body
                     \subseteq {FIELD_MAP.description, FIELD_MAP.status}
              /\ call'.result = [success |-> TRUE, error |-> "", ideaId |-> ""]
              /\ table'[row].description = in.data.description
              /\ forms'[in.actor].submitSuccess
              /\ forms'[in.actor].submitError = ""
              /\ forms'[OtherActor(in.actor)] = forms[OtherActor(in.actor)] ]_vars

\* both users had the idea open and both have saved: each form shows success and
\* the table holds the description of the save that came last
C16_Witness ==
    /\ \A a \in Actors :
          /\ forms[a].open
          /\ forms[a].ideaId = InitialTable[1].id
          /\ forms[a].submitSuccess
          /\ forms[a].submitError = ""
    /\ call.fn = "updateIdea"
    /\ call.result.success
    /\ RowOf(InitialTable[1].id).description = call.input.data.description

PostRequests(requests) == {i \in DOMAIN requests : requests[i].method = "POST"}

\* the table holds a row with this title and description
AlreadyStored(data) ==
    \E i \in DOMAIN table :
        table[i].title = data.title /\ table[i].description = data.description

\* C17: submitIdea for a title and description that the table already holds sends
\* its POST like any other, with a body of the same fields and no key that names
\* the submission; when the platform accepts it, the table has one more row of
\* that title and description under a new id.
C17_DuplicateSubmissionPosts ==
    [][ (/\ call = NoCall
         /\ call'.fn = "submitIdea"
         /\ isDataverseConfigured(call'.cookie)
         /\ AlreadyStored(call'.input))
        =>
          LET posts == PostRequests(call'.requests)
              post == call'.requests[CHOOSE i \in posts : TRUE]
          IN  /\ Cardinality(posts) = 1
              /\ DOMAIN post.body \subseteq
                     {FIELD_MAP.title, FIELD_MAP.description, FIELD_MAP.type, IdeengeberBind}
              /\ post.body[FIELD_MAP.title].s = call'.input.title
              /\ post.body[FIELD_MAP.description].s = call'.input.description
              /\ call'.result.success =>
                    /\ Len(table') = Len(table) + 1
                    /\ table'[1].title = call'.input.title
                    /\ table'[1].description = call'.input.description
                    /\ table'[1].id \notin RowIds ]_vars

\* one title and description, submitted twice, is stored twice
C17_Witness ==
    /\ call.fn = "submitIdea"
    /\ call.result.success
    /\ \E i, j \in DOMAIN table :
          /\ i # j
          /\ table[i].id # table[j].id
          /\ table[i].title = call.input.title
          /\ table[j].title = call.input.title
          /\ table[i].description = call.input.description
          /\ table[j].description = call.input.description

(***************************************************************************)
(* SpecAuth: one browser logs in with a token, time passes, the token      *)
(* expires                                                                 *)
(***************************************************************************)
InitAuth ==
    /\ InitAuthVars
    /\ InitViewVars
    /\ InitDataVars
    /\ record = BaseRecord
    /\ idea = NoIdea

NextAuth ==
    \/ Tick
    \/ \E body \in PostBodies : PostToken(body)
    \/ \E delivered \in BOOLEAN : CheckAuthStatus(delivered)
    \/ \E token \in Tokens, delivered \in BOOLEAN : SetToken(token, delivered)
    \/ \E delivered \in BOOLEAN : ClearToken(delivered)
    \/ \E delivered \in BOOLEAN : IntervalFires(delivered)

SpecAuth == InitAuth /\ [][NextAuth]_vars

\* the payload the token of the last request decodes to
ClaimsOfReply ==
    IF reply.token.t = "string" THEN jwtDecodeJwtPayload(reply.token.s) ELSE NoClaims

\* the token of the last request decodes to a payload with an object id
HasObjectId == ClaimsOfReply.decoded /\ Truthy(ClaimsOfReply.oid)

\* its exp is a time at least 60 seconds after the request
ExpiresLater == ClaimsOfReply.exp.t = "number" /\ ClaimsOfReply.exp.n >= reply.at + 60

\* its exp is a string that is not a number
ExpIsText == ClaimsOfReply.exp.t = "string" /\ ~IsDigits(ClaimsOfReply.exp.s)

\* its exp is a string of digits that reads as a time at least 60 seconds later
ExpiresLaterAsDigits ==
    /\ ClaimsOfReply.exp.t = "string"
    /\ ClaimsOfReply.exp.s # ""
    /\ IsDigits(ClaimsOfReply.exp.s)
    /\ DigitsToNumber(ClaimsOfReply.exp.s) >= reply.at + 60

SpecAuthLive == SpecAuth /\ WF_vars(IntervalFires(TRUE))

\* a user is logged in with a stored token whose expiry, less the buffer, has passed
StaleLogin ==
    /\ browser.user # NoAuthUser
    /\ browser.stored # ""
    /\ isTokenExpired(browser.stored)

\* C25: a login whose stored token has expired does not last: in the end the user
\* is null, unless a token that has not expired was stored meanwhile; and the
\* clearToken that ends it leaves the user null, no token in localStorage and no
\* cookie.
C25_ExpiredTokenLogsOut ==
    /\ StaleLogin ~> (\/ browser.user = NoAuthUser
                      \/ browser.stored # "" /\ ~isTokenExpired(browser.stored))
    /\ [][ (StaleLogin /\ reply'.method = "DELETE") =>
              /\ browser'.user = NoAuthUser
              /\ browser'.stored = ""
              /\ browser'.cookie = "" ]_vars

\* the token that expired at 119 was cleared a minute after the log-in
C25_Witness ==
    /\ reply.method = "DELETE"
    /\ reply.token = Str("jwt.exp.119")
    /\ reply.at >= 60
    /\ browser.user = NoAuthUser
    /\ browser.stored = ""
    /\ browser.cookie = ""

(***************************************************************************)
(* SpecIdeas: the outcome of the read operations                           *)
(***************************************************************************)
\* the rows of the table as ideas, with the workflow stage when it was loaded
PlatformIdeas(withStage) ==
    [i \in DOMAIN table |->
        [bpfStatus |-> IF withStage /\ table[i].stage # ""
                       THEN Str(table[i].stage) ELSE Undefined]
            @@ mapDataverseToIdea(ToRecord(table[i]))]

\* a read that sent its request(s)
ListRead == call.fn = "fetchAllIdeas" /\ call.requests # <<>>
SingleRead == call.fn = "fetchIdeaById" /\ call.requests # <<>>

\* C26: the read operations never throw. fetchAllIdeas returns a list: the
\* mapped rows of the platform, or the sample ideas when the ideas response is
\* not OK or a request failed. fetchIdeaById returns the mapped row or null:
\* null on 404, on any other non-OK response and on a failed request. (Without
\* URL or token no request is sent and the sample ideas answer.)
C26_ReadsNeverThrow ==
    /\ call.fn = "fetchAllIdeas" =>
          /\ call.returned = "ideas"
          /\ ~ListRead => call.ideas = getMockIdeas
          /\ ListRead =>
                /\ call.ideas \in {getMockIdeas, PlatformIdeas(TRUE), PlatformIdeas(FALSE)}
                /\ (call.responses[1] = Rejected \/ ~call.responses[1].ok)
                      => call.ideas = getMockIdeas
    /\ call.fn = "fetchIdeaById" =>
          /\ call.returned \in {"idea", "null"}
          /\ ~SingleRead => call.ideas = FindMock(call.input.id)
          /\ SingleRead =>
                IF call.responses[1].ok
                THEN /\ call.returned = "idea"
                     /\ call.ideas = <<mapDataverseToIdea(ToRecord(RowOf(call.input.id)))>>
                ELSE call.returned = "null" /\ call.ideas = <<>>

\* a single-idea read of an id the sample ideas know, answered with 500
C26_Witness ==
    /\ SingleRead
    /\ call.input.id = "550e8400-e29b-41d4-a716-446655440002"
    /\ call.responses[1].status = 500
    /\ call.returned = "null"

\* C27 (as claimed): once the ideas response is OK the platform's ideas are
\* returned whatever became of the BPF request
C27_BpfOutcomeNeverReplacesIdeas ==
    (ListRead /\ call.responses[1].ok) =>
        call.ideas = PlatformIdeas(call.responses[2].ok)

\* C27 (amended): with an OK ideas response, a BPF response that arrived, OK or
\* not, leaves the platform's ideas in place, without bpfStatus when it is not
\* OK; a BPF request that failed rejects Promise.all and the sample ideas are
\* returned
C27_BpfResponseKeepsIdeasRejectionReplaces ==
    (ListRead /\ call.responses[1].ok) =>
        IF call.responses[2] = Rejected
        THEN call.ideas = getMockIdeas
        ELSE call.ideas = PlatformIdeas(call.responses[2].ok)

\* the ideas response is OK and the BPF request failed
C27_Witness ==
    /\ ListRead
    /\ call.responses[1].ok
    /\ call.responses[2] = Rejected
    /\ call.ideas = getMockIdeas
    /\ call.ideas # PlatformIdeas(FALSE)

(***************************************************************************)
(* SpecView: the stage sections of the detail page against FIELD_CONFIG    *)
(***************************************************************************)
StageSections == {"Initialprüfung", "Detailanalyse", "ITOT-Board", "Planung"}

\* the fields FIELD_DEFINITIONS puts in the section
FieldsOf(sec) == {f \in DOMAIN FIELD_DEFINITIONS : FIELD_DEFINITIONS[f] = sec}

\* FIELD_CONFIG lists the section's fields as visible for the status
MarkedVisible(sec, status) ==
    \A f \in FieldsOf(sec) : Includes(FIELD_CONFIG[status].visible, f)

\* C28 (as claimed): the detail page renders a stage section exactly when
\* FIELD_CONFIG marks the section's fields visible for the idea's status
C28_SectionsFollowFieldConfig ==
    detailStatus # "" =>
        \A sec \in StageSections : sec \in sections <=> MarkedVisible(sec, detailStatus)

\* C28 (amended): a rendered stage section is always one whose fields
\* FIELD_CONFIG marks visible, and the two policies agree on every section and
\* status but one: for "abgelehnt" FIELD_CONFIG lists plannedStart and
\* plannedEnd as visible while the page does not render the Planung section
C28_SectionsFollowFieldConfigButPlanungRejected ==
    detailStatus # "" =>
        \A sec \in StageSections :
            IF sec = "Planung" /\ detailStatus = "abgelehnt"
            THEN sec \notin sections /\ MarkedVisible(sec, detailStatus)
            ELSE /\ sec \in sections <=> MarkedVisible(sec, detailStatus)
                 /\ sec \notin sections =>
                       \A f \in FieldsOf(sec) : ~Includes(FIELD_CONFIG[detailStatus].visible, f)

\* the page of a rejected idea: three stage sections, no Planung
C28_Witness ==
    /\ detailStatus = "abgelehnt"
    /\ sections = {"Initialprüfung", "Detailanalyse", "ITOT-Board"}
    /\ Includes(FIELD_CONFIG["abgelehnt"].visible, "plannedStart")
    /\ Includes(FIELD_CONFIG["abgelehnt"].visible, "plannedEnd")

(***************************************************************************)
(* SpecActions: the list-based subscription actions                        *)
(***************************************************************************)
\* one of the two list-based actions has run in this step
ListSubscriptionStep ==
    /\ call = NoCall
    /\ call'.fn \in {"subscribeToIdea", "unsubscribeFromIdea"}
    /\ "subscribers" \in DOMAIN call'.input

\* C29: subscribeToIdea and unsubscribeFromIdea store the list the caller
\* supplied plus or minus userName, whatever the platform holds: a name already
\* in the supplied list issues no write and returns success; otherwise the one
\* PATCH carries only the joined list and, once accepted, that list is what the
\* row holds, so a name another user added to the same loaded list is gone.
C29_SuppliedListOverwrites ==
    [][ ListSubscriptionStep =>
          LET in == call'.input
              row == CHOOSE i \in DOMAIN table : table[i].id = in.id
              listed == \E k \in DOMAIN in.subscribers : in.subscribers[k] = in.actor
              stores == IF call'.fn = "subscribeToIdea"
                        THEN in.subscribers \o <<in.actor>>
                        ELSE Without(in.subscribers, in.actor)
          IN  IF call'.fn = "subscribeToIdea" /\ listed
              THEN /\ call'.requests = <<>>
                   /\ call'.result = Success
                   /\ table' = table
              ELSE /\ Len(call'.requests) <= 1
                   /\ call'.requests # <<>> =>
                         /\ call'.requests[1].method = "PATCH"
                         /\ call'.requests[1].body
                               = (SubscriberText :> Str(JoinSemicolon(stores)))
                         /\ call'.responses[1].ok =>
                               /\ call'.result = Success
                               /\ table'[row].subscriber = JoinSemicolon(stores)
                         /\ table'[row].subscriber
                               \in {table[row].subscriber, JoinSemicolon(stores)} ]_vars

\* the later of two subscriptions made from the same empty list: the row holds
\* the later caller alone
C29_Witness ==
    /\ call.fn = "subscribeToIdea"
    /\ call.input = [actor |-> "Anna Beispiel", id |-> InitialTable[1].id, subscribers |-> <<>>]
    /\ call.requests # <<>>
    /\ call.responses[1].ok
    /\ call.result = Success
    /\ RowOf(InitialTable[1].id).subscriber = "Anna Beispiel"

(***************************************************************************)
(* SpecSubscribe: ideas are submitted and subscribed to by e-mail          *)
(***************************************************************************)
\* the idea-giver ids a caller of the server action may pass
IdeengeberIds == {"", "emp-anna", "emp-other"}

NextSubscribe ==
    \/ /\ call = NoCall
       /\ \E cookie \in Cookies, data \in CreateInputs, uuid \in UUIDs :
          \E employeeResponse \in (IF Sends(cookie, data) THEN {Ok, Rejected} ELSE {Ok}),
             postResponse \in (IF Sends(cookie, data) THEN Responses ELSE {Ok}) :
             \E lost \in (IF Sends(cookie, data) THEN Lost(postResponse) ELSE {FALSE}) :
                SubmitIdea(cookie, data, employeeResponse, postResponse,
                           Str(<<EntitySetUrl, "(", NextRecordId, ")">>), uuid, lost)
    \/ /\ call = NoCall
       /\ \E actor \in Actors, id \in RowIds :
          \E employeeResponse \in Drawn(env.url), response \in Drawn(env.url) :
             \E lost \in Lost(response) :
                ClickSubscribe(actor, id, employeeResponse, response, lost)
    \/ /\ call = NoCall
       /\ \E actor \in Actors, id \in RowIds, ideengeberId \in IdeengeberIds :
          \E employeeResponse \in Drawn(env.url), response \in Drawn(env.url) :
             \E lost \in Lost(response) :
                CallSubscribeToIdea(actor, id, ideengeberId, employeeResponse, response, lost)
    \/ Delivered

SpecSubscribe == InitIdeas /\ [][NextSubscribe]_vars

\* the subscribe action by e-mail has run in this step
EmailSubscriptionStep ==
    /\ call = NoCall
    /\ call'.fn = "subscribeToIdea"
    /\ "ideengeberId" \in DOMAIN call'.input

\* the employee findEmployeeByEmail found for the current user's e-mail in the
\* call just made ("" when none was found)
ResolvedEmployee ==
    IF call'.requests = <<>> THEN ""
    ELSE findEmployeeByEmail(call'.cookie, getCurrentUserAsync(call'.cookie).email,
                             call'.responses[1])

\* C30: the idea-giver is never stored as the subscriber of their own idea:
\* when the employee resolved from the current user's e-mail is the idea's
\* idea-giver, subscribeToIdea returns success = false with isIdeengeber = true
\* and sends no PATCH; when no employee is found it returns an error and sends
\* no PATCH.
C30_IdeaGiverNeverSubscriber ==
    /\ [](\A i \in DOMAIN table :
             table[i].ideengeber # "" => table[i].subscriber # table[i].ideengeber)
    /\ [][ EmailSubscriptionStep =>
             LET in == call'.input
                 row == CHOOSE i \in DOMAIN table : table[i].id = in.id
                 patches == {k \in DOMAIN call'.requests : call'.requests[k].method = "PATCH"}
             IN  /\ ( /\ table[row].ideengeber # ""
                      /\ ResolvedEmployee = table[row].ideengeber ) =>
                         /\ patches = {}
                         /\ ~call'.result.success
                         /\ "isIdeengeber" \in DOMAIN call'.result
                 /\ ResolvedEmployee = "" =>
                         /\ patches = {}
                         /\ ~call'.result.success
                         /\ call'.result.error # "" ]_vars

====
